---------------------------- MODULE Spec2Model ----------------------------
(***************************************************************************)
(* History archiving of the e-prop / Urbanczik learning rules              *)
(* (jstapmanns/nest-simulator).                                            *)
(*                                                                         *)
(* The repository holds several generations of the archiving node:        *)
(*   EAN_*  EpropArchivingNode, registry driven by register_update        *)
(*          (nestkernel/eprop_archiving_node.cpp, lines 34-348)            *)
(*   Sen_*  Eprop_Archiving_Node with the -1000 sentinel checkpoint        *)
(*          (nestkernel/eprop_archiving_node.cpp, lines 383-720)           *)
(*   Cl_*   Eprop_Archiving_Node with per-entry access counters            *)
(*          (unnamed/part_001)                                             *)
(*   UrbB_* Urbanczik_Archiving_Node with the block registry               *)
(*          (nestkernel/urbanczik_archiving_node_impl.h, lines 34-210)     *)
(*   UrbC_* Urbanczik_Archiving_Node with access counters / compression    *)
(*          (nestkernel/urbanczik_archiving_node_impl.h, lines 245-481)    *)
(*                                                                         *)
(* Time.  A time is an integer number of ticks.  One tick is the time      *)
(* tolerance (stdp_eps, and the literal 1.0e-6 of the scans); two times    *)
(* the program treats as different are at least TimeQuantum = 2 ticks      *)
(* apart, and the simulation step is Resolution = 4 * TimeQuantum, so      *)
(* that a query bound can lie at 1/4, 1/2 and 3/4 of a step.  The kernel   *)
(* resolution is taken to be 50 ms, so that the literals 100.0 (update     *)
(* interval), -1000.0 (sentinel) and 1000.0 are 2, -20 and 20 steps.       *)
(***************************************************************************)
EXTENDS Integers, Sequences, FiniteSets, TLC

VARIABLES
    eprop_history_,          \* std::deque< histentry_eprop >: <<[t_, access_counter_]>>
    spike_history_,          \* std::deque< double >
    urbanczik_history_,      \* std::deque< histentry_extended >, one compartment
    urbanczik_history_compr_, \* std::deque< histentry_eextended >, one compartment
    last_spike_per_synapse_, \* std::vector< histentry_extended >: the registry
    n_incoming_,             \* Archiving_Node::n_incoming_
    is_eprop_readout,        \* Node::is_eprop_readout() of the target
    now,                     \* origin.get_steps() + lag, in steps
    syn,                     \* per synapse: the connection object's own fields
    q,                       \* the last range query and what each range returned
    obs                      \* what the last operation did (erased entries, lookups)

vars == << eprop_history_, spike_history_, urbanczik_history_,
           urbanczik_history_compr_,
           last_spike_per_synapse_, n_incoming_, is_eprop_readout, now, syn,
           q, obs >>

(***************************************************************************)
(* Units                                                                   *)
(***************************************************************************)
StdpEps == 1
TimeQuantum == 2 * StdpEps
Resolution == 4 * TimeQuantum
Sentinel_steps == -20
TidyFrom_steps == 20
UpdateInterval_steps == 2
CtorNextUpdate_steps == 2
CtorUpdateInterval_steps == 20
SentinelTime == Sentinel_steps * Resolution
TidyLowerArg == TidyFrom_steps * Resolution
UpdateInterval == UpdateInterval_steps * Resolution
CtorNextUpdate == CtorNextUpdate_steps * Resolution
CtorUpdateInterval == CtorUpdateInterval_steps * Resolution

(***************************************************************************)
(* Bounds of the model                                                     *)
(***************************************************************************)
MaxSteps == 5
NSyn == 2

Synapses == 1..NSyn

(***************************************************************************)
(* Helpers                                                                 *)
(***************************************************************************)
Max(a, b) == IF a >= b THEN a ELSE b
Min(a, b) == IF a <= b THEN a ELSE b
Abs(a) == IF a >= 0 THEN a ELSE -a
SetMin(S) == CHOOSE x \in S : \A y \in S : x <= y
SetMax(S) == CHOOSE x \in S : \A y \in S : x >= y

\* (int) std::round( n / d ) for d > 0: nearest integer, halves away from zero
Round(n, d) ==
    IF n >= 0 THEN (2 * n + d) \div (2 * d)
              ELSE -(((2 * (-n)) + d) \div (2 * d))

\* floor( n / d ) for d > 0
Floor(n, d) == n \div d

\* the times of a history of records
Times(h) == [i \in DOMAIN h |-> h[i].t_]

\* std::lower_bound( begin + first, end, val ) on a sequence of times, as an
\* offset from begin: the first position at or after `first` whose element is
\* not less than val, or end
LowerBound(ts, first, val) ==
    SetMin({k \in first..Len(ts) : k = Len(ts) \/ ts[k + 1] >= val})

\* the entries an iterator pair [begin + r[1], begin + r[2]) walks over
Slice(ts, r) == {ts[i] : i \in {j \in DOMAIN ts : r[1] < j /\ j <= r[2]}}

\* erase( begin, begin + k ) / repeated pop_front
DropFront(h, k) == SubSeq(h, k + 1, Len(h))

\* one entry per simulation step
Dense(ts) == \A i \in 1..(Len(ts) - 1) : ts[i + 1] = ts[i] + Resolution

(***************************************************************************)
(* Range queries (pure functions of the stored times)                      *)
(***************************************************************************)

\* a range search whose lower bound is closed: t1 <= time <= t2
Mut_get_spike_history_closed(ts, t1, t2) ==
    IF ts = << >> THEN << 0, 0 >>
    ELSE LET runner1 == LowerBound(ts, 0, t1 - StdpEps)
             runner2 == LowerBound(ts, runner1, t2 + StdpEps)
         IN  << runner1, runner2 >>

\* EpropArchivingNode::get_spike_history
EAN_get_spike_history(ts, t1, t2) ==
    IF ts = << >> THEN << 0, 0 >>
    ELSE LET runner1 == LowerBound(ts, 0, t1 + StdpEps)
             runner2 == LowerBound(ts, runner1, t2 + StdpEps)
         IN  << runner1, runner2 >>

\* Eprop_Archiving_Node::get_spike_history (sentinel variant)
Sen_get_spike_history(ts, t1in, t2) ==
    LET t1 == Max(SentinelTime, t1in)
    IN  IF ts = << >> THEN << 0, 0 >>
        ELSE LET runner1 == LowerBound(ts, 0, t1 + StdpEps)
                 runner2 == LowerBound(ts, runner1, t2 + StdpEps)
             IN  << runner1, runner2 >>

\* the two while loops of the linear scan: the runner stops at the first entry
\* with t_ - 1.0e-6 >= bound
ScanFrom(ts, first, bound) ==
    SetMin({k \in first..Len(ts) : k = Len(ts) \/ ~(ts[k + 1] - StdpEps < bound)})

\* Eprop_Archiving_Node::get_eprop_history (access-counter variant)
Cl_get_eprop_history(ts, t1, t2) ==
    IF ts = << >> THEN << 0, 0 >>
    ELSE LET start == ScanFrom(ts, 0, t1)
             finish == ScanFrom(ts, start, t2)
         IN  << start, finish >>

\* Urbanczik_Archiving_Node::get_urbanczik_history (access-counter variant)
UrbC_get_urbanczik_history(ts, t1, t2) ==
    IF ts = << >> THEN << 0, 0 >>
    ELSE LET start == ScanFrom(ts, 0, t1)
             finish == ScanFrom(ts, start, t2)
         IN  << start, finish >>

\* EpropArchivingNode::find_eprop_hist_entries
EAN_find_eprop_hist_entries(ts, t1, t2) ==
    IF ts = << >> THEN << 0, 0 >>
    ELSE LET t_first == ts[1]
             pos_t1 == Max(0, Round(t1 - t_first, Resolution) + 0 * 1)
             pos_t2 == Min(Len(ts), Round(t2 - t_first, Resolution) + 0 * 1)
         IN  << Max(0, pos_t1), Max(0, pos_t2) >>

\* position arithmetic that points at the entries of t1 and t2, not their successors
Mut_find_range_no_successor(ts, t1in, t2) ==
    LET t1 == Max(SentinelTime, t1in)
    IN  IF ts = << >> THEN << 0, 0 >>
        ELSE LET t_first == ts[1]
                 pos_t1 == Max(0, Round(t1 - t_first, Resolution))
                 pos_t2 == Min(Len(ts), Round(t2 - t_first, Resolution))
             IN  << Max(0, pos_t1), Max(0, pos_t2) >>

\* the position arithmetic of Eprop_Archiving_Node::get_eprop_history (sentinel variant)
Sen_find_range(ts, t1in, t2) ==
    LET t1 == Max(SentinelTime, t1in)
    IN  IF ts = << >> THEN << 0, 0 >>
        ELSE LET t_first == ts[1]
                 pos_t1 == Max(0, Round(t1 - t_first, Resolution) + 1)
                 pos_t2 == Min(Len(ts), Round(t2 - t_first, Resolution) + 1)
             IN  << Max(0, pos_t1), Max(0, pos_t2) >>

\* position arithmetic without the test for an empty store: t_first is read as 0
Mut_find_range_no_empty_test(ts, t1, t2) ==
    LET t_first == IF ts = << >> THEN 0 ELSE ts[1]
        pos_t1 == Max(0, Round(t1 - t_first, Resolution) + 1)
        pos_t2 == Min(Len(ts), Round(t2 - t_first, Resolution) + 1)
    IN  << Max(0, pos_t1), Max(0, pos_t2) >>

\* the position arithmetic of Urbanczik_Archiving_Node::get_urbanczik_history (block variant)
UrbB_find_range(ts, t1, t2) ==
    IF ts = << >> THEN << 0, 0 >>
    ELSE LET t_first == ts[1]
             pos_t1 == Max(0, Round(t1 - t_first, Resolution) + 1)
             pos_t2 == Min(Len(ts), Round(t2 - t_first, Resolution) + 1)
         IN  << Max(0, pos_t1), Max(0, pos_t2) >>


(***************************************************************************)
(* Values of the variables a specification does not use                    *)
(***************************************************************************)
NoQuery == [done |-> FALSE]
NoObs == [op |-> "none"]

\* EpropConnection::EpropConnection(): the fields the archiving node depends on
\* (t_lastspike_ is written by send and read by nothing the node sees).
\* cp is not a field of the connection: it records the time this synapse last
\* handed to the registry (at init_eprop_buffers or as the new checkpoint).
NewConnection ==
    [connected |-> FALSE, delay |-> 0, t_lastupdate_ |-> 0,
     t_nextupdate_ |-> CtorNextUpdate,
     update_interval_ |-> CtorUpdateInterval, cp |-> 0]
NoSyn == [s \in Synapses |-> NewConnection]

RECURSIVE SeqOfSet(_)
\* the elements of a finite set of integers in ascending order
SeqOfSet(S) ==
    IF S = {} THEN << >>
    ELSE LET m == SetMin(S) IN << m >> \o SeqOfSet(S \ {m})

Entry(t) == [t_ |-> t, access_counter_ |-> 0]

(***************************************************************************)
(* SpecRange: the range queries applied to every stored history and every  *)
(* query of the bounded sets.  The store holds at most one entry per step  *)
(* of 0..MaxSteps (a gated writer skips steps, a dense writer does not);   *)
(* the query bounds lie on the quarter-step raster from one step before    *)
(* the first possible entry to one step after the last.                    *)
(***************************************************************************)
StepTimes == {k * Resolution : k \in 0..MaxSteps}
QueryTimes == {k * TimeQuantum : k \in (-4)..(4 * (MaxSteps + 1))}
Histories == {SeqOfSet(S) : S \in SUBSET StepTimes}

R_Init ==
    /\ \E ts \in Histories : eprop_history_ = [i \in DOMAIN ts |-> Entry(ts[i])]
    /\ \E t1 \in QueryTimes, t2 \in QueryTimes :
           q = [done |-> FALSE, t1 |-> t1, t2 |-> t2]
    /\ spike_history_ = << >>
    /\ urbanczik_history_ = << >>
    /\ urbanczik_history_compr_ = << >>
    /\ last_spike_per_synapse_ = << >>
    /\ n_incoming_ = 0
    /\ is_eprop_readout = FALSE
    /\ now = 0
    /\ syn = NoSyn
    /\ obs = NoObs

\* every range operation applied to the stored times with the drawn bounds
R_Query ==
    /\ ~q.done
    /\ LET ts == Times(eprop_history_) IN
       q' = [done |-> TRUE, t1 |-> q.t1, t2 |-> q.t2,
             EAN_spike |-> EAN_get_spike_history(ts, q.t1, q.t2),
             Sen_spike |-> Sen_get_spike_history(ts, q.t1, q.t2),
             Cl_scan |-> Cl_get_eprop_history(ts, q.t1, q.t2),
             UrbC_scan |-> UrbC_get_urbanczik_history(ts, q.t1, q.t2),
             EAN_grid |-> EAN_find_eprop_hist_entries(ts, q.t1, q.t2),
             Sen_grid |-> Sen_find_range(ts, q.t1, q.t2),
             UrbB_grid |-> UrbB_find_range(ts, q.t1, q.t2)]
    /\ UNCHANGED << eprop_history_, spike_history_, urbanczik_history_, urbanczik_history_compr_,
                    last_spike_per_synapse_, n_incoming_, is_eprop_readout,
                    now, syn, obs >>

R_Next == R_Query

SpecRange == R_Init /\ [][R_Next]_vars

\* the stored times with t1 < time <= t2
InRange(ts, t1, t2) == {ts[i] : i \in {j \in DOMAIN ts : t1 < ts[j] /\ ts[j] <= t2}}

\* C2: every search-addressed range (lower_bound with stdp_eps, linear scan
\* with the 1e-6 tolerance) of a time-sorted history and a query t1 < t2 walks
\* over exactly the stored entries with t1 < time <= t2.
C2_SearchRange ==
    (q.done /\ q.t1 < q.t2) =>
        LET ts == Times(eprop_history_) IN
        /\ Slice(ts, q.EAN_spike) = InRange(ts, q.t1, q.t2)
        /\ Slice(ts, q.Cl_scan) = InRange(ts, q.t1, q.t2)
        /\ Slice(ts, q.UrbC_scan) = InRange(ts, q.t1, q.t2)

\* a query whose bounds both coincide with stored entries, with an entry between
C2_Witness ==
    /\ q.done /\ q.t1 < q.t2
    /\ LET ts == Times(eprop_history_) IN
       /\ \E i, j \in DOMAIN ts : ts[i] = q.t1 /\ ts[j] = q.t2 /\ j > i + 1
       /\ ~Dense(ts)
       /\ q.EAN_spike[1] > 0 /\ q.EAN_spike[2] < Len(ts)
       /\ q.t1 \notin Slice(ts, q.EAN_spike) /\ q.t2 \in Slice(ts, q.Cl_scan)

\* C3: on a dense history EpropArchivingNode::find_eprop_hist_entries returns
\* exactly the entries with t1 < time <= t2.
C3_GridRange ==
    (q.done /\ eprop_history_ # << >> /\ Dense(Times(eprop_history_))) =>
        LET ts == Times(eprop_history_) IN
        Slice(ts, q.EAN_grid) = InRange(ts, q.t1, q.t2)

OnGrid(ts, t) == (t - ts[1]) % Resolution = 0

InsertAt(seq, k, e) == SubSeq(seq, 1, k) \o << e >> \o SubSeq(seq, k + 1, Len(seq))
EraseAt(seq, k) == SubSeq(seq, 1, k) \o SubSeq(seq, k + 2, Len(seq))
Slot(t, n) == [t_ |-> t, access_counter_ |-> n]

\* EpropArchivingNode::init_eprop_buffers
EAN_init_eprop_buffers(reg, delay) ==
    LET it_reg == LowerBound(Times(reg), 0, delay - StdpEps)
    IN  IF it_reg = Len(reg) \/ Abs(delay - reg[it_reg + 1].t_) > StdpEps
        THEN InsertAt(reg, it_reg, Slot(delay, 1))
        ELSE [reg EXCEPT ![it_reg + 1].access_counter_ = @ + 1]

\* EpropArchivingNode::register_update, first half: the new checkpoint
EAN_register_new(reg, t_update) ==
    LET it_reg == LowerBound(Times(reg), 0, t_update - StdpEps)
    IN  IF it_reg = Len(reg) \/ Abs(t_update - reg[it_reg + 1].t_) > StdpEps
        THEN InsertAt(reg, it_reg, Slot(t_update, 1))
        ELSE [reg EXCEPT ![it_reg + 1].access_counter_ = @ + 1]

\* a release that leaves a slot in place when its counter reaches zero
Mut_release_old_keeps_slot(reg, t_lastupdate) ==
    LET it_reg == LowerBound(Times(reg), 0, t_lastupdate - StdpEps)
    IN  IF it_reg = Len(reg) \/ Abs(t_lastupdate - reg[it_reg + 1].t_) > StdpEps
        THEN [reg |-> reg, found |-> FALSE]
        ELSE [reg |-> [reg EXCEPT ![it_reg + 1].access_counter_ = @ - 1],
              found |-> TRUE]

\* EpropArchivingNode::register_update, second half: the old checkpoint.
\* found = FALSE is the branch that prints "found nothing" and returns.
EAN_release_old(reg, t_lastupdate) ==
    LET it_reg == LowerBound(Times(reg), 0, t_lastupdate - StdpEps)
    IN  IF it_reg = Len(reg) \/ Abs(t_lastupdate - reg[it_reg + 1].t_) > StdpEps
        THEN [reg |-> reg, found |-> FALSE]
        ELSE IF reg[it_reg + 1].access_counter_ - 1 = 0
             THEN [reg |-> EraseAt(reg, it_reg), found |-> TRUE]
             ELSE [reg |-> [reg EXCEPT ![it_reg + 1].access_counter_ = @ - 1],
                   found |-> TRUE]

\* EpropArchivingNode::register_update
EAN_register_update(reg, t_lastupdate, t_update) ==
    EAN_release_old(EAN_register_new(reg, t_update), t_lastupdate)

\* EpropArchivingNode::get_eprop_history( t1, t2, t3, t4 )
EAN_get_eprop_history(reg, ts, t1, t2, t3, t4) ==
    LET r == EAN_register_update(reg, t3, t4)
    IN  [reg |-> r.reg, found |-> r.found,
         range |-> EAN_find_eprop_hist_entries(ts, t1, t2)]

\* EpropArchivingNode::get_eprop_history( t1, t2, t3 ), the overload send
\* calls (declared in eprop_archiving_node.h): the checkpoint moves from t1 to
\* t3 and the range (t1, t2] is returned
EAN_get_eprop_history_3(reg, ts, t1, t2, t3) ==
    EAN_get_eprop_history(reg, ts, t1, t2, t1, t3)

\* the while loop of tidy_eprop_history: how many spikes are popped
EAN_spikes_to_pop(spikes, smallest_time_to_keep) ==
    SetMin({k \in 0..Len(spikes) :
               k = Len(spikes) \/ ~(spikes[k + 1] + StdpEps < smallest_time_to_keep)})

\* a tidy that also erases the entry right after the computed boundary
Mut_tidy_through_watermark(hist, spikes, smallest_time_to_keep) ==
    [eprop |->
        IF hist # << >>
        THEN DropFront(hist, Min(Len(hist),
                 EAN_find_eprop_hist_entries(Times(hist), 0, smallest_time_to_keep)[2] + 1))
        ELSE hist,
     spikes |-> DropFront(spikes, EAN_spikes_to_pop(spikes, smallest_time_to_keep))]

\* EpropArchivingNode::tidy_eprop_history, given the value read from
\* last_spike_per_synapse_.begin()
EAN_tidy_eprop_history(hist, spikes, smallest_time_to_keep) ==
    [eprop |->
        IF hist # << >>
        THEN DropFront(hist,
                 EAN_find_eprop_hist_entries(Times(hist), 0, smallest_time_to_keep)[2])
        ELSE hist,
     spikes |-> DropFront(spikes, EAN_spikes_to_pop(spikes, smallest_time_to_keep))]

\* EpropArchivingNode::write_eprop_history
EAN_write_eprop_history(hist, n_in, t_ms) ==
    IF n_in # 0 THEN Append(hist, Entry(t_ms)) ELSE hist

\* EpropArchivingNode::write_spike_history
EAN_write_spike_history(spikes, t_ms) == Append(spikes, t_ms)

(***************************************************************************)
(* SpecA: one EpropArchivingNode, its writer (aif_psc_delta_eprop::update) *)
(* and NSyn EpropConnection objects that target it.                        *)
(***************************************************************************)
A_MaxSteps == 5
MaxDelay == 2

Alive == obs.op # "crash"
StepTime(k) == k * Resolution
SeqRange(ts) == {ts[i] : i \in DOMAIN ts}

\* a value read through begin() of an empty registry
GarbageTimes == {SentinelTime, 0, StepTime(2), StepTime(A_MaxSteps + 1)}

A_Init ==
    /\ eprop_history_ = << >>
    /\ spike_history_ = << >>
    /\ urbanczik_history_ = << >>
    /\ urbanczik_history_compr_ = << >>
    /\ last_spike_per_synapse_ = << >>
    /\ n_incoming_ = 0
    /\ is_eprop_readout \in BOOLEAN
    /\ now = 0
    /\ syn = NoSyn
    /\ q = NoQuery
    /\ obs = NoObs

\* EpropConnection::set_status with update_interval in the dictionary: the
\* interval is taken over and both update times are reset from the delay
SetStatus(c, update_interval) ==
    [c EXCEPT !.update_interval_ = update_interval,
              !.t_nextupdate_ = update_interval + 2 * c.delay,
              !.t_lastupdate_ = 2 * c.delay]

\* the time check_connection hands to init_eprop_buffers
ConnectTime(c) == IF is_eprop_readout THEN 3 * c.delay ELSE 2 * c.delay

\* a connection is created (with or without a set_status call on it) and
\* EpropConnection::check_connection registers it with the node
A_Connect(s, d, with_status) ==
    /\ Alive /\ ~syn[s].connected
    /\ \A r \in Synapses : r < s => syn[r].connected
    /\ LET c0 == [NewConnection EXCEPT !.delay = StepTime(d)]
           c1 == IF with_status THEN SetStatus(c0, UpdateInterval) ELSE c0
       IN  /\ last_spike_per_synapse_' =
                  EAN_init_eprop_buffers(last_spike_per_synapse_, ConnectTime(c1))
           /\ syn' = [syn EXCEPT ![s] =
                        [c1 EXCEPT !.connected = TRUE, !.cp = ConnectTime(c1)]]
    /\ n_incoming_' = n_incoming_ + 1
    /\ obs' = NoObs
    /\ UNCHANGED << eprop_history_, spike_history_, urbanczik_history_, urbanczik_history_compr_,
                    is_eprop_readout, now, q >>

\* aif_psc_delta_eprop::update, one lag: an optional spike, then one eprop entry
A_Step(spike) ==
    /\ Alive /\ now < A_MaxSteps
    /\ now' = now + 1
    /\ spike_history_' =
           IF spike THEN EAN_write_spike_history(spike_history_, StepTime(now + 1))
                    ELSE spike_history_
    /\ eprop_history_' =
           EAN_write_eprop_history(eprop_history_, n_incoming_, StepTime(now + 1))
    /\ obs' = NoObs
    /\ UNCHANGED << urbanczik_history_, urbanczik_history_compr_,
                    last_spike_per_synapse_, n_incoming_, is_eprop_readout, syn,
                    q >>

\* EpropConnection::send for a presynaptic spike stamped with the current time
A_Send(s) ==
    /\ Alive /\ syn[s].connected
    /\ now >= 1
    /\ LET c == syn[s]
           t_spike == StepTime(now)
           dendritic_delay == c.delay
           off == IF is_eprop_readout THEN dendritic_delay ELSE 0
           t_update_ == Floor(t_spike, c.update_interval_) * c.update_interval_
                            + 2 * dendritic_delay
           g == EAN_get_eprop_history_3(last_spike_per_synapse_, Times(eprop_history_),
                    c.t_lastupdate_ + off, c.t_lastupdate_ + c.update_interval_ + off,
                    t_update_ + off)
       IN  IF t_spike > c.t_nextupdate_
           THEN /\ last_spike_per_synapse_' = g.reg
                /\ syn' = [syn EXCEPT ![s] =
                     [c EXCEPT !.t_lastupdate_ = t_update_,
                               !.t_nextupdate_ = c.t_nextupdate_ +
                                   (Floor(t_spike - c.t_nextupdate_, c.update_interval_) + 1)
                                       * c.update_interval_,
                               !.cp = t_update_ + off]]
                /\ obs' = [op |-> "send", updated |-> TRUE, found |-> g.found]
           ELSE /\ last_spike_per_synapse_' = last_spike_per_synapse_
                /\ syn' = syn
                /\ obs' = NoObs
    /\ UNCHANGED << eprop_history_, spike_history_, urbanczik_history_,
                    urbanczik_history_compr_, n_incoming_, is_eprop_readout, now,
                    q >>

\* EpropArchivingNode::tidy_eprop_history with a registry that holds a slot
A_Tidy ==
    /\ Alive /\ last_spike_per_synapse_ # << >>
    /\ LET smallest_time_to_keep == last_spike_per_synapse_[1].t_
           r == EAN_tidy_eprop_history(eprop_history_, spike_history_,
                                       smallest_time_to_keep)
       IN  /\ eprop_history_' = r.eprop
           /\ spike_history_' = r.spikes
           /\ obs' = [op |-> "tidy", registry_empty |-> FALSE,
                      watermark |-> smallest_time_to_keep,
                      erased |-> SeqRange(Times(eprop_history_)) \ SeqRange(Times(r.eprop)),
                      erased_spikes |-> SeqRange(spike_history_) \ SeqRange(r.spikes)]
    /\ UNCHANGED << urbanczik_history_, urbanczik_history_compr_,
                    last_spike_per_synapse_, n_incoming_, is_eprop_readout, now,
                    syn, q >>

\* EpropArchivingNode::tidy_eprop_history with an empty registry: begin() of an
\* empty vector is dereferenced, the value read is arbitrary
A_TidyEmptyRegistry(garbage) ==
    /\ Alive /\ last_spike_per_synapse_ = << >>
    /\ LET r == EAN_tidy_eprop_history(eprop_history_, spike_history_, garbage)
       IN  /\ eprop_history_' = r.eprop
           /\ spike_history_' = r.spikes
           /\ obs' = [op |-> "tidy", registry_empty |-> TRUE,
                      watermark |-> garbage,
                      erased |-> SeqRange(Times(eprop_history_)) \ SeqRange(Times(r.eprop)),
                      erased_spikes |-> SeqRange(spike_history_) \ SeqRange(r.spikes)]
    /\ UNCHANGED << urbanczik_history_, urbanczik_history_compr_,
                    last_spike_per_synapse_, n_incoming_, is_eprop_readout, now,
                    syn, q >>

\* ... or the read faults
A_TidyCrash ==
    /\ Alive /\ last_spike_per_synapse_ = << >>
    /\ obs' = [op |-> "crash"]
    /\ UNCHANGED << eprop_history_, spike_history_, urbanczik_history_, urbanczik_history_compr_,
                    last_spike_per_synapse_, n_incoming_, is_eprop_readout, now,
                    syn, q >>

A_Next ==
    \/ \E s \in Synapses, d \in 1..MaxDelay, b \in BOOLEAN : A_Connect(s, d, b)
    \/ \E b \in BOOLEAN : A_Step(b)
    \/ \E s \in Synapses : A_Send(s)
    \/ A_Tidy
    \/ \E g \in GarbageTimes : A_TidyEmptyRegistry(g)
    \/ A_TidyCrash

SpecA == A_Init /\ [][A_Next]_vars

RegistryTimes == SeqRange(Times(last_spike_per_synapse_))

\* C1: tidy_eprop_history never erases an eprop-history entry or a spike whose
\* time is at or after a checkpoint held in last_spike_per_synapse_ (that is,
\* at or after the registry minimum), whatever the interleaving of connect,
\* deliver, write and tidy.
C1_TidyKeepsLive ==
    (obs.op = "tidy") =>
        \A t \in obs.erased \cup obs.erased_spikes :
            \A c \in RegistryTimes : t < c

\* a tidy that erased an entry and a spike and left a later entry and spike
C1_Witness ==
    /\ obs.op = "tidy" /\ ~obs.registry_empty
    /\ obs.erased # {} /\ obs.erased_spikes # {}
    /\ eprop_history_ # << >> /\ spike_history_ # << >>
    /\ eprop_history_[1].t_ = obs.watermark
    /\ Len(last_spike_per_synapse_) >= 2

RECURSIVE SumCounters(_)
SumCounters(reg) ==
    IF reg = << >> THEN 0
    ELSE reg[1].access_counter_ + SumCounters(Tail(reg))

ConnectedSynapses == {s \in Synapses : syn[s].connected}

\* C7: in the EpropArchivingNode variant the access counters of
\* last_spike_per_synapse_ add up to the number of connected synapses and the
\* registry is never empty once a synapse is connected, whether or not
\* set_status was called on the connection.
C7_CountersSumToSynapses ==
    Alive =>
        /\ SumCounters(last_spike_per_synapse_) = Cardinality(ConnectedSynapses)
        /\ (ConnectedSynapses # {} => last_spike_per_synapse_ # << >>)

\* C8: last_spike_per_synapse_ is strictly ascending with no two slots within
\* stdp_eps of each other, every counter is at least 1, and the counter of the
\* slot at time t is the number of synapses whose current checkpoint is t.
C8_RegistryWellFormed ==
    Alive =>
        LET reg == last_spike_per_synapse_ IN
        /\ \A i \in 1..(Len(reg) - 1) : reg[i + 1].t_ - reg[i].t_ > StdpEps
        /\ \A i \in DOMAIN reg : reg[i].access_counter_ >= 1
        /\ \A i \in DOMAIN reg :
               reg[i].access_counter_ =
                   Cardinality({s \in ConnectedSynapses :
                                   Abs(syn[s].cp - reg[i].t_) <= StdpEps})

(***************************************************************************)
(* SpecCycle: N synapses registered at t0 each move their checkpoint to t1 *)
(* and back through EpropArchivingNode::register_update.                   *)
(***************************************************************************)
CycleTimes == {k * StdpEps : k \in 0..3} \cup {StepTime(k) : k \in (-1)..2}

Cy_Init ==
    /\ eprop_history_ = << >>
    /\ spike_history_ = << >>
    /\ urbanczik_history_ = << >>
    /\ urbanczik_history_compr_ = << >>
    /\ last_spike_per_synapse_ = << >>
    /\ n_incoming_ = 0
    /\ is_eprop_readout = FALSE
    /\ now = 0
    /\ syn = [s \in Synapses |-> [phase |-> "new"]]
    /\ \E t0 \in CycleTimes, t1 \in CycleTimes : q = [t0 |-> t0, t1 |-> t1]
    /\ obs = NoObs

\* check_connection: the synapse is registered at t0
Cy_Connect(s) ==
    /\ syn[s].phase = "new"
    /\ last_spike_per_synapse_' = EAN_init_eprop_buffers(last_spike_per_synapse_, q.t0)
    /\ n_incoming_' = n_incoming_ + 1
    /\ syn' = [syn EXCEPT ![s].phase = "at_t0"]
    /\ obs' = NoObs
    /\ UNCHANGED << eprop_history_, spike_history_, urbanczik_history_, urbanczik_history_compr_,
                    is_eprop_readout, now, q >>

\* register_update( t0, t1 ), once every synapse is registered
Cy_Advance(s) ==
    /\ \A r \in Synapses : syn[r].phase # "new"
    /\ syn[s].phase = "at_t0"
    /\ LET r == EAN_register_update(last_spike_per_synapse_, q.t0, q.t1)
       IN  /\ last_spike_per_synapse_' = r.reg
           /\ obs' = [op |-> "register_update", found |-> r.found]
    /\ syn' = [syn EXCEPT ![s].phase = "at_t1"]
    /\ UNCHANGED << eprop_history_, spike_history_, urbanczik_history_, urbanczik_history_compr_,
                    n_incoming_, is_eprop_readout, now, q >>

\* register_update( t1, t0 )
Cy_Return(s) ==
    /\ syn[s].phase = "at_t1"
    /\ LET r == EAN_register_update(last_spike_per_synapse_, q.t1, q.t0)
       IN  /\ last_spike_per_synapse_' = r.reg
           /\ obs' = [op |-> "register_update", found |-> r.found]
    /\ syn' = [syn EXCEPT ![s].phase = "back_at_t0"]
    /\ UNCHANGED << eprop_history_, spike_history_, urbanczik_history_, urbanczik_history_compr_,
                    n_incoming_, is_eprop_readout, now, q >>

Cy_Next ==
    \/ \E s \in Synapses : Cy_Connect(s)
    \/ \E s \in Synapses : Cy_Advance(s)
    \/ \E s \in Synapses : Cy_Return(s)

SpecCycle == Cy_Init /\ [][Cy_Next]_vars

\* C9: from the single checkpoint (t0, N), when every synapse performs
\* register_update(t0, t1) and later register_update(t1, t0) in any
\* interleaving, every release finds its checkpoint and the registry ends as
\* exactly the single slot (t0, N).
C9_CycleRestoresRegistry ==
    /\ (obs.op = "register_update") => obs.found
    /\ (\A s \in Synapses : syn[s].phase = "back_at_t0") =>
           last_spike_per_synapse_ = << Slot(q.t0, NSyn) >>

\* all synapses are back after a cycle through a separate slot at t1
C9_Witness ==
    /\ \A s \in Synapses : syn[s].phase = "back_at_t0"
    /\ Abs(q.t1 - q.t0) > StdpEps
    /\ obs.op = "register_update" /\ obs.found
    /\ last_spike_per_synapse_ = << Slot(q.t0, NSyn) >>

(***************************************************************************)
(* Eprop_Archiving_Node (sentinel variant): registry, tidy                 *)
(***************************************************************************)
\* Eprop_Archiving_Node::init_eprop_buffers
Sen_init_eprop_buffers(reg, n_in) == Append(reg, Slot(SentinelTime, n_in))

\* a delivery that decrements the old slot but never erases it
Mut_get_eprop_history_no_erase(reg, t1in, t2, decrease_access_counter) ==
    LET t1 == Max(SentinelTime, t1in)
        it_new == LowerBound(Times(reg), 0, t2 - StdpEps)
        reg1 == IF it_new = Len(reg) \/ Abs(t2 - reg[it_new + 1].t_) > StdpEps
                THEN InsertAt(reg, it_new, Slot(t2, 1))
                ELSE [reg EXCEPT ![it_new + 1].access_counter_ = @ + 1]
        it_reg == LowerBound(Times(reg1), 0, t1 - StdpEps)
        found == ~(it_reg = Len(reg1) \/ Abs(t1 - reg1[it_reg + 1].t_) > StdpEps)
        reg2 == IF found THEN [reg1 EXCEPT ![it_reg + 1].access_counter_ = @ - 1]
                         ELSE reg1
    IN  IF ~decrease_access_counter
        THEN [reg |-> reg, found |-> TRUE, ub |-> FALSE]
        ELSE [reg |-> reg2, found |-> found, ub |-> FALSE]

\* a get_eprop_history that does the registry bookkeeping whatever the flag
Mut_get_eprop_history_ignores_flag(reg, t1in, t2, decrease_access_counter) ==
    LET t1 == Max(SentinelTime, t1in)
        it_new == LowerBound(Times(reg), 0, t2 - StdpEps)
        reg1 == IF it_new = Len(reg) \/ Abs(t2 - reg[it_new + 1].t_) > StdpEps
                THEN InsertAt(reg, it_new, Slot(t2, 1))
                ELSE [reg EXCEPT ![it_new + 1].access_counter_ = @ + 1]
        it_reg == LowerBound(Times(reg1), 0, t1 - StdpEps)
        found == ~(it_reg = Len(reg1) \/ Abs(t1 - reg1[it_reg + 1].t_) > StdpEps)
        reg2 == IF found THEN [reg1 EXCEPT ![it_reg + 1].access_counter_ = @ - 1]
                         ELSE reg1
    IN  IF it_reg = Len(reg1)
        THEN [reg |-> reg2, found |-> FALSE, ub |-> TRUE]
        ELSE IF reg2[it_reg + 1].access_counter_ = 0
        THEN [reg |-> EraseAt(reg2, it_reg), found |-> found, ub |-> FALSE]
        ELSE [reg |-> reg2, found |-> found, ub |-> FALSE]

\* Eprop_Archiving_Node::get_eprop_history, the part that works on
\* last_spike_per_synapse_.  ub: the final test reads access_counter_ through
\* end() of the registry.
Sen_get_eprop_history(reg, t1in, t2, decrease_access_counter) ==
    LET t1 == Max(SentinelTime, t1in)
        it_new == LowerBound(Times(reg), 0, t2 - StdpEps)
        reg1 == IF it_new = Len(reg) \/ Abs(t2 - reg[it_new + 1].t_) > StdpEps
                THEN InsertAt(reg, it_new, Slot(t2, 1))
                ELSE [reg EXCEPT ![it_new + 1].access_counter_ = @ + 1]
        it_reg == LowerBound(Times(reg1), 0, t1 - StdpEps)
        found == ~(it_reg = Len(reg1) \/ Abs(t1 - reg1[it_reg + 1].t_) > StdpEps)
        reg2 == IF found THEN [reg1 EXCEPT ![it_reg + 1].access_counter_ = @ - 1]
                         ELSE reg1
    IN  IF ~decrease_access_counter
        THEN [reg |-> reg, found |-> TRUE, ub |-> FALSE]
        ELSE IF it_reg = Len(reg1)
        THEN [reg |-> reg2, found |-> FALSE, ub |-> TRUE]
        ELSE IF reg2[it_reg + 1].access_counter_ = 0
        THEN [reg |-> EraseAt(reg2, it_reg), found |-> found, ub |-> FALSE]
        ELSE [reg |-> reg2, found |-> found, ub |-> FALSE]

\* Eprop_Archiving_Node::tidy_eprop_history
Sen_tidy_eprop_history(hist, reg) ==
    IF hist # << >>
    THEN DropFront(hist, Sen_find_range(Times(hist), TidyLowerArg, reg[1].t_)[2])
    ELSE hist

\* Eprop_Archiving_Node::tidy_spike_history
Sen_tidy_spike_history(spikes, reg) ==
    IF spikes # << >>
    THEN DropFront(spikes, Sen_get_spike_history(spikes, TidyLowerArg, reg[1].t_)[2])
    ELSE spikes

(***************************************************************************)
(* SpecS: one Eprop_Archiving_Node, its writer and NSyn synapses that      *)
(* deliver through get_eprop_history( t_last, t_now, true ).               *)
(***************************************************************************)
S_MaxSteps == 4

S_Init ==
    /\ eprop_history_ = << >>
    /\ spike_history_ = << >>
    /\ urbanczik_history_ = << >>
    /\ urbanczik_history_compr_ = << >>
    /\ last_spike_per_synapse_ = << >>
    /\ n_incoming_ = 0
    /\ is_eprop_readout = FALSE
    /\ now = 0
    /\ syn = [s \in Synapses |->
                 [connected |-> FALSE, delay |-> 0, t_lastspike_ |-> SentinelTime,
                  deliveries |-> 0]]
    /\ q = [seeded |-> FALSE]
    /\ obs = NoObs

\* a synapse is connected before the buffers are initialised
S_Connect(s, d) ==
    /\ ~q.seeded /\ ~syn[s].connected
    /\ \A r \in Synapses : r < s => syn[r].connected
    /\ syn' = [syn EXCEPT ![s].connected = TRUE, ![s].delay = StepTime(d)]
    /\ n_incoming_' = n_incoming_ + 1
    /\ obs' = NoObs
    /\ UNCHANGED << eprop_history_, spike_history_, urbanczik_history_, urbanczik_history_compr_,
                    last_spike_per_synapse_, is_eprop_readout, now, q >>

\* init_eprop_buffers()
S_InitBuffers ==
    /\ ~q.seeded
    /\ last_spike_per_synapse_' =
           Sen_init_eprop_buffers(last_spike_per_synapse_, n_incoming_)
    /\ q' = [q EXCEPT !.seeded = TRUE]
    /\ obs' = NoObs
    /\ UNCHANGED << eprop_history_, spike_history_, urbanczik_history_, urbanczik_history_compr_,
                    n_incoming_, is_eprop_readout, now, syn >>

\* one simulation step: an optional spike, then one eprop entry
S_Step(spike) ==
    /\ Alive /\ q.seeded /\ now < S_MaxSteps
    /\ now' = now + 1
    /\ spike_history_' =
           IF spike THEN EAN_write_spike_history(spike_history_, StepTime(now + 1))
                    ELSE spike_history_
    /\ eprop_history_' =
           EAN_write_eprop_history(eprop_history_, n_incoming_, StepTime(now + 1))
    /\ obs' = NoObs
    /\ UNCHANGED << urbanczik_history_, urbanczik_history_compr_,
                    last_spike_per_synapse_, n_incoming_, is_eprop_readout, syn,
                    q >>

\* a presynaptic spike stamped with the current time reaches synapse s
S_Deliver(s) ==
    /\ Alive /\ q.seeded /\ syn[s].connected
    /\ StepTime(now) > syn[s].t_lastspike_ /\ now >= 1
    /\ LET c == syn[s]
           t_spike == StepTime(now)
           r == Sen_get_eprop_history(last_spike_per_synapse_,
                    c.t_lastspike_ - c.delay, t_spike - c.delay, TRUE)
       IN  /\ last_spike_per_synapse_' = r.reg
           /\ obs' = IF r.ub THEN [op |-> "crash"]
                     ELSE [op |-> "deliver", found |-> r.found,
                           t1 |-> c.t_lastspike_ - c.delay, t2 |-> t_spike - c.delay]
           /\ syn' = [syn EXCEPT ![s].t_lastspike_ = t_spike,
                                 ![s].deliveries = @ + 1]
    /\ UNCHANGED << eprop_history_, spike_history_, urbanczik_history_, urbanczik_history_compr_,
                    n_incoming_, is_eprop_readout, now, q >>

S_TidyEprop ==
    /\ Alive /\ q.seeded
    /\ eprop_history_' = Sen_tidy_eprop_history(eprop_history_, last_spike_per_synapse_)
    /\ obs' = [op |-> "tidy_eprop", watermark |-> last_spike_per_synapse_[1].t_,
               erased |-> SeqRange(Times(eprop_history_)) \
                              SeqRange(Times(eprop_history_'))]
    /\ UNCHANGED << spike_history_, urbanczik_history_, urbanczik_history_compr_,
                    last_spike_per_synapse_, n_incoming_, is_eprop_readout, now,
                    syn, q >>

S_TidySpike ==
    /\ Alive /\ q.seeded
    /\ spike_history_' = Sen_tidy_spike_history(spike_history_, last_spike_per_synapse_)
    /\ obs' = [op |-> "tidy_spike", watermark |-> last_spike_per_synapse_[1].t_,
               erased_spikes |-> SeqRange(spike_history_) \ SeqRange(spike_history_')]
    /\ UNCHANGED << eprop_history_, urbanczik_history_, urbanczik_history_compr_,
                    last_spike_per_synapse_, n_incoming_, is_eprop_readout, now,
                    syn, q >>

S_Next ==
    \/ \E s \in Synapses, d \in 1..MaxDelay : S_Connect(s, d)
    \/ S_InitBuffers
    \/ \E b \in BOOLEAN : S_Step(b)
    \/ \E s \in Synapses : S_Deliver(s)
    \/ S_TidyEprop
    \/ S_TidySpike

SpecS == S_Init /\ [][S_Next]_vars

\* C5: in the sentinel variant tidy_spike_history never erases a spike whose
\* time is greater than the registry's minimum checkpoint time.
C5_TidySpikeKeepsLive ==
    (obs.op = "tidy_spike") =>
        \A t \in obs.erased_spikes : t <= obs.watermark

(***************************************************************************)
(* SpecSeed: the registry of one Eprop_Archiving_Node is seeded for its    *)
(* connected synapses, then each synapse delivers once, all for the same t *)
(***************************************************************************)
SeedTimes == {k * TimeQuantum : k \in (-4 * MaxDelay)..(4 * S_MaxSteps)}

Sd_Init ==
    /\ eprop_history_ = << >>
    /\ spike_history_ = << >>
    /\ urbanczik_history_ = << >>
    /\ urbanczik_history_compr_ = << >>
    /\ last_spike_per_synapse_ = << >>
    /\ n_incoming_ = 0
    /\ is_eprop_readout = FALSE
    /\ now = 0
    /\ syn = [s \in Synapses |->
                 [connected |-> FALSE, delay |-> 0, t_lastspike_ |-> SentinelTime,
                  deliveries |-> 0]]
    /\ \E t \in SeedTimes : q = [seeded |-> FALSE, t |-> t]
    /\ obs = NoObs

\* get_eprop_history( -1000.0, t, start, finish, true ), once per synapse
Sd_Deliver(s) ==
    /\ q.seeded /\ syn[s].connected /\ syn[s].deliveries = 0
    /\ LET r == Sen_get_eprop_history(last_spike_per_synapse_,
                                      syn[s].t_lastspike_, q.t, TRUE)
       IN  /\ last_spike_per_synapse_' = r.reg
           /\ obs' = IF r.ub THEN [op |-> "crash"]
                     ELSE [op |-> "deliver", found |-> r.found,
                           t1 |-> syn[s].t_lastspike_, t2 |-> q.t]
    /\ syn' = [syn EXCEPT ![s].t_lastspike_ = q.t, ![s].deliveries = 1]
    /\ UNCHANGED << eprop_history_, spike_history_, urbanczik_history_, urbanczik_history_compr_,
                    n_incoming_, is_eprop_readout, now, q >>

Sd_Next ==
    \/ \E s \in Synapses, d \in 1..MaxDelay : S_Connect(s, d)
    \/ S_InitBuffers
    \/ \E s \in Synapses : Sd_Deliver(s)

SpecSeed == Sd_Init /\ [][Sd_Next]_vars

\* C10: with the registry seeded as the single sentinel slot (-1000, N), once
\* each of the N synapses has called get_eprop_history(-1000, t, true) once
\* with the same t, in any order, the sentinel slot is gone and the registry
\* is exactly the single slot (t, N).
C10_SentinelReplaced ==
    (/\ q.seeded /\ n_incoming_ >= 1
     /\ \A s \in ConnectedSynapses : syn[s].deliveries = 1)
    => last_spike_per_synapse_ = << Slot(q.t, n_incoming_) >>

\* all NSyn synapses have delivered and the last release removed the sentinel
C10_Witness ==
    /\ q.seeded /\ n_incoming_ = NSyn
    /\ \A s \in Synapses : syn[s].connected /\ syn[s].deliveries = 1
    /\ obs.op = "deliver" /\ obs.found /\ obs.t1 = SentinelTime
    /\ last_spike_per_synapse_ = << Slot(q.t, NSyn) >>

(***************************************************************************)
(* Urbanczik_Archiving_Node, block registry: one compartment               *)
(***************************************************************************)
\* SpecU runs the kernel at a resolution of 10 ms, so that -1000.0 ms is 100
\* steps before time zero and a block of 100 steps covers the sentinel.
UrbB_Sentinel_steps == -100
HistBlockMin_steps == 100
UrbB_SentinelTime == UrbB_Sentinel_steps * Resolution

\* hist_block_steps_, hist_block_ms_, block_margin_ as init_urbanczik_buffers
\* sets them; MaxDelay is the kernel's max_delay in steps
hist_block_steps_ == Max(2 * MaxDelay + 1, HistBlockMin_steps)
hist_block_ms_ == hist_block_steps_ * Resolution
block_margin_ == (MaxDelay + 1) * Resolution

\* Urbanczik_Archiving_Node::init_urbanczik_buffers
UrbB_init_urbanczik_buffers(reg, n_in) ==
    Append(reg, Slot(UrbB_SentinelTime - block_margin_ + hist_block_ms_, n_in))

\* a registration that places a new block by t2 alone
Mut_register_spike_block_from_t2(reg, t2) ==
    LET last == Len(reg)
    IN  IF t2 + StdpEps > reg[last].t_
        THEN Append(reg, Slot(t2 - block_margin_ + hist_block_ms_, 1))
        ELSE [reg EXCEPT ![last].access_counter_ = @ + 1]

\* Urbanczik_Archiving_Node::get_urbanczik_history, the registration of t2.
\* ( rbegin() )++ is a post-increment of a temporary reverse iterator: it
\* yields a copy of rbegin(), so second_last is the index of the last block.
UrbB_register_spike(reg, t2) ==
    LET last == Len(reg)
        second_last == Len(reg)
    IN  IF t2 + StdpEps > reg[last].t_
        THEN Append(reg, Slot(Max(reg[last].t_ + hist_block_ms_,
                                  t2 - block_margin_ + hist_block_ms_), 1))
        ELSE IF t2 + StdpEps > reg[second_last].t_
             THEN [reg EXCEPT ![last].access_counter_ = @ + 1]
             ELSE [reg EXCEPT ![second_last].access_counter_ = @ + 1]

\* Urbanczik_Archiving_Node::get_urbanczik_history, the part that works on
\* last_spike_per_synapse_.  threw: the lookup of t1 reached end().
UrbB_get_urbanczik_history(reg, t1, t2) ==
    LET reg1 == UrbB_register_spike(reg, t2)
        it_reg == LowerBound(Times(reg1), 0, t1 + StdpEps)
    IN  IF it_reg = Len(reg1)
        THEN [reg |-> reg1, threw |-> TRUE]
        ELSE IF reg1[it_reg + 1].access_counter_ - 1 = 0
             THEN [reg |-> EraseAt(reg1, it_reg), threw |-> FALSE]
             ELSE [reg |-> [reg1 EXCEPT ![it_reg + 1].access_counter_ = @ - 1],
                   threw |-> FALSE]

\* a tidy that erases the oldest entry on every call
Mut_tidy_urbanczik_drops_front(hist, reg) ==
    IF hist # << >>
    THEN LET t_first == hist[1].t_
             t_oldest_spike == reg[1].t_
             pos_t2 == Min(Len(hist),
                           Round(t_oldest_spike - t_first, Resolution) + 1)
         IN  DropFront(hist, Max(1, pos_t2))
    ELSE hist

\* Urbanczik_Archiving_Node::tidy_urbanczik_history with a non-empty registry
UrbB_tidy_urbanczik_history(hist, reg) ==
    IF hist # << >>
    THEN LET t_first == hist[1].t_
             t_oldest_spike == reg[1].t_
             pos_t2 == Min(Len(hist),
                           Round(t_oldest_spike - t_first, Resolution) + 1)
         IN  DropFront(hist, Max(0, pos_t2))
    ELSE hist

\* Urbanczik_Archiving_Node::write_urbanczik_history
UrbB_write_urbanczik_history(hist, n_in, t_ms) ==
    IF n_in # 0 THEN Append(hist, Entry(t_ms)) ELSE hist

(***************************************************************************)
(* SpecU: one Urbanczik_Archiving_Node compartment, its writer and NSyn    *)
(* synapses that deliver through get_urbanczik_history( t_last, t_now ).   *)
(***************************************************************************)
U_MaxSteps == 4

U_Init ==
    /\ eprop_history_ = << >>
    /\ spike_history_ = << >>
    /\ urbanczik_history_ = << >>
    /\ urbanczik_history_compr_ = << >>
    /\ last_spike_per_synapse_ = << >>
    /\ n_incoming_ = 0
    /\ is_eprop_readout = FALSE
    /\ now = 0
    /\ syn = [s \in Synapses |->
                 [connected |-> FALSE, delay |-> 0, t_lastspike_ |-> UrbB_SentinelTime,
                  deliveries |-> 0]]
    /\ q = [seeded |-> FALSE]
    /\ obs = NoObs

\* a synapse is connected before the buffers are initialised
U_Connect(s, d) ==
    /\ ~q.seeded /\ ~syn[s].connected
    /\ \A r \in Synapses : r < s => syn[r].connected
    /\ syn' = [syn EXCEPT ![s].connected = TRUE, ![s].delay = StepTime(d)]
    /\ n_incoming_' = n_incoming_ + 1
    /\ obs' = NoObs
    /\ UNCHANGED << eprop_history_, spike_history_, urbanczik_history_, urbanczik_history_compr_,
                    last_spike_per_synapse_, is_eprop_readout, now, q >>

\* init_urbanczik_buffers( comp )
U_InitBuffers ==
    /\ ~q.seeded
    /\ last_spike_per_synapse_' =
           UrbB_init_urbanczik_buffers(last_spike_per_synapse_, n_incoming_)
    /\ q' = [q EXCEPT !.seeded = TRUE]
    /\ obs' = NoObs
    /\ UNCHANGED << eprop_history_, spike_history_, urbanczik_history_, urbanczik_history_compr_,
                    n_incoming_, is_eprop_readout, now, syn >>

\* one simulation step: one entry is written
U_Step ==
    /\ obs.op # "throw" /\ q.seeded /\ now < U_MaxSteps
    /\ now' = now + 1
    /\ urbanczik_history_' =
           UrbB_write_urbanczik_history(urbanczik_history_, n_incoming_,
                                        StepTime(now + 1))
    /\ obs' = NoObs
    /\ UNCHANGED << eprop_history_, spike_history_, urbanczik_history_compr_,
                    last_spike_per_synapse_, n_incoming_, is_eprop_readout, syn, q >>

\* a presynaptic spike stamped with the current time reaches synapse s
U_Deliver(s) ==
    /\ obs.op # "throw" /\ q.seeded /\ syn[s].connected
    /\ StepTime(now) > syn[s].t_lastspike_ /\ now >= 1
    /\ LET c == syn[s]
           t_spike == StepTime(now)
           t1 == c.t_lastspike_ - c.delay
           t2 == t_spike - c.delay
           r == UrbB_get_urbanczik_history(last_spike_per_synapse_, t1, t2)
           ts == Times(urbanczik_history_)
       IN  /\ last_spike_per_synapse_' = r.reg
           /\ obs' = IF r.threw THEN [op |-> "throw"]
                     ELSE [op |-> "deliver", t1 |-> t1, t2 |-> t2,
                           got |-> Slice(ts, UrbB_find_range(ts, t1, t2))]
           /\ syn' = [syn EXCEPT ![s].t_lastspike_ = t_spike,
                                 ![s].deliveries = @ + 1]
    /\ UNCHANGED << eprop_history_, spike_history_, urbanczik_history_, urbanczik_history_compr_,
                    n_incoming_, is_eprop_readout, now, q >>

\* tidy_urbanczik_history( t1, comp )
U_Tidy ==
    /\ obs.op # "throw" /\ q.seeded
    /\ urbanczik_history_' =
           UrbB_tidy_urbanczik_history(urbanczik_history_, last_spike_per_synapse_)
    /\ obs' = [op |-> "tidy", watermark |-> last_spike_per_synapse_[1].t_,
               erased |-> SeqRange(Times(urbanczik_history_)) \
                              SeqRange(Times(urbanczik_history_'))]
    /\ UNCHANGED << eprop_history_, spike_history_, urbanczik_history_compr_,
                    last_spike_per_synapse_, n_incoming_, is_eprop_readout, now, syn, q >>

U_Next ==
    \/ \E s \in Synapses, d \in 1..MaxDelay : U_Connect(s, d)
    \/ U_InitBuffers
    \/ U_Step
    \/ \E s \in Synapses : U_Deliver(s)
    \/ U_Tidy

SpecU == U_Init /\ [][U_Next]_vars

\* C6: in the Urbanczik block-registry variant every written entry whose time
\* is greater than a connected synapse's last delivered t2 is still in
\* urbanczik_history_ until that synapse has delivered again: tidy never
\* erases an entry that some synapse has yet to read.
C6_TidyKeepsUnread ==
    (q.seeded /\ obs.op # "throw") =>
        \A s \in ConnectedSynapses : \A k \in 1..now :
            StepTime(k) > syn[s].t_lastspike_ - syn[s].delay =>
                StepTime(k) \in SeqRange(Times(urbanczik_history_))

(***************************************************************************)
(* SpecScen: one synapse registered at a with an EpropArchivingNode, whose *)
(* writer makes Sc_Writes entries at consecutive steps; the synapse then   *)
(* delivers (a, b], delivers (b, c] and tidies.                            *)
(***************************************************************************)
Sc_Writes == 4

ScenTimes == {k * TimeQuantum : k \in 0..(4 * (Sc_Writes + 1))}
Sc_Written == {StepTime(k) : k \in 1..Sc_Writes}

Sc_Init ==
    /\ eprop_history_ = << >>
    /\ spike_history_ = << >>
    /\ urbanczik_history_ = << >>
    /\ urbanczik_history_compr_ = << >>
    /\ last_spike_per_synapse_ = << >>
    /\ n_incoming_ = 0
    /\ is_eprop_readout = FALSE
    /\ now = 0
    /\ syn = NoSyn
    /\ \E a \in ScenTimes, b \in ScenTimes, c \in ScenTimes :
           /\ a < b /\ b < c
           /\ q = [phase |-> "new", a |-> a, b |-> b, c |-> c, got1 |-> {}, got2 |-> {}]
    /\ obs = NoObs

\* the synapse is registered with its first checkpoint a
Sc_Connect ==
    /\ q.phase = "new"
    /\ last_spike_per_synapse_' = EAN_init_eprop_buffers(last_spike_per_synapse_, q.a)
    /\ n_incoming_' = n_incoming_ + 1
    /\ q' = [q EXCEPT !.phase = "write"]
    /\ obs' = NoObs
    /\ UNCHANGED << eprop_history_, spike_history_, urbanczik_history_, urbanczik_history_compr_,
                    is_eprop_readout, now, syn >>

\* one simulation step: one eprop entry and one spike
Sc_Write ==
    /\ q.phase = "write" /\ now < Sc_Writes
    /\ now' = now + 1
    /\ eprop_history_' =
           EAN_write_eprop_history(eprop_history_, n_incoming_, StepTime(now + 1))
    /\ spike_history_' = EAN_write_spike_history(spike_history_, StepTime(now + 1))
    /\ obs' = NoObs
    /\ UNCHANGED << urbanczik_history_, urbanczik_history_compr_,
                    last_spike_per_synapse_, n_incoming_, is_eprop_readout, syn,
                    q >>

\* get_eprop_history( a, b, a, b ): the checkpoint moves from a to b
Sc_Deliver1 ==
    /\ q.phase = "write" /\ now = Sc_Writes
    /\ LET ts == Times(eprop_history_)
           g == EAN_get_eprop_history(last_spike_per_synapse_, ts, q.a, q.b, q.a, q.b)
       IN  /\ last_spike_per_synapse_' = g.reg
           /\ q' = [q EXCEPT !.phase = "delivered1", !.got1 = Slice(ts, g.range)]
           /\ obs' = [op |-> "deliver", found |-> g.found]
    /\ UNCHANGED << eprop_history_, spike_history_, urbanczik_history_, urbanczik_history_compr_,
                    n_incoming_, is_eprop_readout, now, syn >>

\* get_eprop_history( b, c, b, c ): the checkpoint moves from b to c
Sc_Deliver2 ==
    /\ q.phase = "delivered1"
    /\ LET ts == Times(eprop_history_)
           g == EAN_get_eprop_history(last_spike_per_synapse_, ts, q.b, q.c, q.b, q.c)
       IN  /\ last_spike_per_synapse_' = g.reg
           /\ q' = [q EXCEPT !.phase = "delivered2", !.got2 = Slice(ts, g.range)]
           /\ obs' = [op |-> "deliver", found |-> g.found]
    /\ UNCHANGED << eprop_history_, spike_history_, urbanczik_history_, urbanczik_history_compr_,
                    n_incoming_, is_eprop_readout, now, syn >>

\* tidy_eprop_history( b ): the argument is not read, the boundary is the time
\* of the first registry slot
Sc_Tidy ==
    /\ q.phase = "delivered2"
    /\ LET smallest_time_to_keep == last_spike_per_synapse_[1].t_
           r == EAN_tidy_eprop_history(eprop_history_, spike_history_,
                                       smallest_time_to_keep)
       IN  /\ eprop_history_' = r.eprop
           /\ spike_history_' = r.spikes
           /\ obs' = [op |-> "tidy", registry_empty |-> FALSE,
                      watermark |-> smallest_time_to_keep,
                      erased |-> SeqRange(Times(eprop_history_)) \ SeqRange(Times(r.eprop)),
                      erased_spikes |-> SeqRange(spike_history_) \ SeqRange(r.spikes)]
    /\ q' = [q EXCEPT !.phase = "tidied"]
    /\ UNCHANGED << urbanczik_history_, urbanczik_history_compr_,
                    last_spike_per_synapse_, n_incoming_, is_eprop_readout, now,
                    syn >>

Sc_Next ==
    \/ Sc_Connect
    \/ Sc_Write
    \/ Sc_Deliver1
    \/ Sc_Deliver2
    \/ Sc_Tidy

SpecScen == Sc_Init /\ [][Sc_Next]_vars

\* C11: with one connected synapse and entries written at consecutive steps,
\* deliver(a, b) returns exactly the entries in (a, b], the following
\* deliver(b, c) returns exactly the entries in (b, c], and after the
\* subsequent tidy(b) exactly the entries with time <= b are erased while
\* every entry with time > b remains.
C11_Scenario ==
    /\ (q.phase \in {"delivered1", "delivered2", "tidied"}) =>
           q.got1 = {t \in Sc_Written : q.a < t /\ t <= q.b}
    /\ (q.phase \in {"delivered2", "tidied"}) =>
           q.got2 = {t \in Sc_Written : q.b < t /\ t <= q.c}
    /\ (q.phase = "tidied") =>
           SeqRange(Times(eprop_history_)) = {t \in Sc_Written : t > q.b}

(***************************************************************************)
(* SpecE: the EpropConnection of models/eprop_connection.h and the node    *)
(* it drives.  check_connection registers the synapse with                 *)
(* init_eprop_buffers( delay ); send delivers through the two-time         *)
(* get_eprop_history( t1, t2 ) and ends with tidy_eprop_history and        *)
(* tidy_spike_history.                                                     *)
(***************************************************************************)
E_MaxSteps == 5
E_CtorUpdateInterval_steps == 2
E_CtorNextUpdate_steps == 2

\* a writer that puts the new entry at the head of the deque
Mut_write_eprop_history_front(hist, n_in, t_ms) ==
    IF n_in # 0 THEN << Entry(t_ms) >> \o hist ELSE hist

\* Eprop_Archiving_Node::write_eprop_history
Sen_write_eprop_history(hist, n_in, t_ms) ==
    IF n_in # 0 THEN Append(hist, Entry(t_ms)) ELSE hist

\* Eprop_Archiving_Node::write_spike_history
Sen_write_spike_history(spikes, t_ms) == Append(spikes, t_ms)

\* EpropConnection::EpropConnection() of eprop_connection.h
E_NewConnection ==
    [connected |-> FALSE, delay |-> 0, t_lastupdate_ |-> 0,
     t_nextupdate_ |-> E_CtorNextUpdate_steps * Resolution,
     update_interval_ |-> E_CtorUpdateInterval_steps * Resolution, cp |-> 0]

E_Init ==
    /\ eprop_history_ = << >>
    /\ spike_history_ = << >>
    /\ urbanczik_history_ = << >>
    /\ urbanczik_history_compr_ = << >>
    /\ last_spike_per_synapse_ = << >>
    /\ n_incoming_ = 0
    /\ is_eprop_readout \in BOOLEAN
    /\ now = 0
    /\ syn = [s \in Synapses |-> E_NewConnection]
    /\ q = NoQuery
    /\ obs = NoObs

\* a connection is created (with or without a set_status call on it) and
\* check_connection registers it with the node
E_Connect(s, d, with_status) ==
    /\ Alive /\ ~syn[s].connected
    /\ \A r \in Synapses : r < s => syn[r].connected
    /\ LET c0 == [E_NewConnection EXCEPT !.delay = StepTime(d)]
           c1 == IF with_status THEN SetStatus(c0, UpdateInterval) ELSE c0
       IN  /\ last_spike_per_synapse_' =
                  EAN_init_eprop_buffers(last_spike_per_synapse_, ConnectTime(c1))
           /\ syn' = [syn EXCEPT ![s] =
                        [c1 EXCEPT !.connected = TRUE, !.cp = ConnectTime(c1)]]
    /\ n_incoming_' = n_incoming_ + 1
    /\ obs' = NoObs
    /\ UNCHANGED << eprop_history_, spike_history_, urbanczik_history_, urbanczik_history_compr_,
                    is_eprop_readout, now, q >>

\* the neuron's update, one lag: an optional spike, then one eprop entry
E_Step(spike) ==
    /\ Alive /\ now < E_MaxSteps
    /\ now' = now + 1
    /\ spike_history_' =
           IF spike THEN Sen_write_spike_history(spike_history_, StepTime(now + 1))
                    ELSE spike_history_
    /\ eprop_history_' =
           Sen_write_eprop_history(eprop_history_, n_incoming_, StepTime(now + 1))
    /\ obs' = NoObs
    /\ UNCHANGED << urbanczik_history_, urbanczik_history_compr_,
                    last_spike_per_synapse_, n_incoming_, is_eprop_readout, syn,
                    q >>

\* EpropConnection::send of eprop_connection.h for a presynaptic spike stamped
\* with the current time: the delivery, then the two tidy calls
E_Send(s) ==
    /\ Alive /\ syn[s].connected
    /\ now >= 1
    /\ LET c == syn[s]
           t_spike == StepTime(now)
           dendritic_delay == c.delay
           off == IF is_eprop_readout THEN dendritic_delay ELSE 0
           t_update_ == Floor(t_spike, c.update_interval_) * c.update_interval_
                            + 2 * dendritic_delay
           g == Sen_get_eprop_history(last_spike_per_synapse_,
                    c.t_lastupdate_ + off, t_update_ + off, TRUE)
           hist == Sen_tidy_eprop_history(eprop_history_, g.reg)
           spikes == Sen_tidy_spike_history(spike_history_, g.reg)
       IN  IF ~(t_spike > c.t_nextupdate_)
           THEN /\ obs' = NoObs
                /\ UNCHANGED << last_spike_per_synapse_, syn, eprop_history_,
                                spike_history_ >>
           ELSE IF g.ub
           THEN /\ obs' = [op |-> "crash"]
                /\ UNCHANGED << last_spike_per_synapse_, syn, eprop_history_,
                                spike_history_ >>
           ELSE /\ last_spike_per_synapse_' = g.reg
                /\ syn' = [syn EXCEPT ![s] =
                     [c EXCEPT !.t_lastupdate_ = t_update_,
                               !.t_nextupdate_ = c.t_nextupdate_ +
                                   (Floor(t_spike - c.t_nextupdate_, c.update_interval_) + 1)
                                       * c.update_interval_,
                               !.cp = t_update_ + off]]
                /\ eprop_history_' = hist
                /\ spike_history_' = spikes
                /\ obs' = [op |-> "send", updated |-> TRUE, found |-> g.found,
                           tidy_arg |-> t_update_ - dendritic_delay,
                           regmin |-> g.reg[1].t_,
                           erased |-> SeqRange(Times(eprop_history_)) \
                                          SeqRange(Times(hist)),
                           erased_spikes |-> SeqRange(spike_history_) \ SeqRange(spikes)]
    /\ UNCHANGED << urbanczik_history_, urbanczik_history_compr_, n_incoming_,
                    is_eprop_readout, now, q >>

E_Next ==
    \/ \E s \in Synapses, d \in 1..MaxDelay, b \in BOOLEAN : E_Connect(s, d, b)
    \/ \E b \in BOOLEAN : E_Step(b)
    \/ \E s \in Synapses : E_Send(s)

SpecE == E_Init /\ [][E_Next]_vars

\* C12: tidy_eprop_history(t1) and tidy_spike_history(t1) remove only entries
\* with time <= t1, and at every call made from EpropConnection::send the
\* argument t1 = t_lastupdate_ - dendritic_delay is <= the registry's minimum
\* checkpoint time at that moment.
C12_TidyArgument ==
    (obs.op = "send") =>
        /\ \A t \in obs.erased \cup obs.erased_spikes : t <= obs.tidy_arg
        /\ obs.tidy_arg <= obs.regmin

(***************************************************************************)
(* SpecTidy: each variant's tidy applied twice in succession to every      *)
(* store and registry of the bounded sets: a dense history that starts at  *)
(* any step, spikes at any steps, and a registry of one or two slots.      *)
(***************************************************************************)
T_MaxSteps == 4

T_Variants == {"EpropArchivingNode", "Eprop_Archiving_Node", "Urbanczik_Archiving_Node"}
T_DenseHistories ==
    {[i \in 1..n |-> Entry(StepTime(first + i - 1))] :
        first \in 1..T_MaxSteps, n \in 0..T_MaxSteps}
T_SpikeHistories == {SeqOfSet(S) : S \in SUBSET {StepTime(k) : k \in 1..T_MaxSteps}}
T_RegTimes == {k * TimeQuantum : k \in (-4)..(4 * (T_MaxSteps + 1))} \cup {SentinelTime}
T_Registries ==
    {<< Slot(t, 1) >> : t \in T_RegTimes}
        \cup {<< Slot(t, 1), Slot(t + Resolution, 2) >> : t \in T_RegTimes}

\* the first slot of the registry, read through begin()
T_Oldest == last_spike_per_synapse_[1].t_

\* the stores and the registry after one tidy call of the variant.  The
\* sentinel variant's tidy_eprop_history reads its range through
\* get_eprop_history( 1000.0, begin()->t_, ..., false ), which is handed the
\* registry; the other tidy functions only read begin()->t_.
T_After(variant) ==
    IF variant = "EpropArchivingNode"
    THEN LET r == EAN_tidy_eprop_history(eprop_history_, spike_history_, T_Oldest)
         IN  [eprop |-> r.eprop, spikes |-> r.spikes, urbanczik |-> urbanczik_history_,
              registry |-> last_spike_per_synapse_]
    ELSE IF variant = "Eprop_Archiving_Node"
    THEN [eprop |-> Sen_tidy_eprop_history(eprop_history_, last_spike_per_synapse_),
          spikes |-> Sen_tidy_spike_history(spike_history_, last_spike_per_synapse_),
          urbanczik |-> urbanczik_history_,
          registry |-> Sen_get_eprop_history(last_spike_per_synapse_, TidyLowerArg,
                                             T_Oldest, FALSE).reg]
    ELSE [eprop |-> eprop_history_, spikes |-> spike_history_,
          urbanczik |-> UrbB_tidy_urbanczik_history(urbanczik_history_,
                                                    last_spike_per_synapse_),
          registry |-> last_spike_per_synapse_]

T_Init ==
    /\ eprop_history_ \in {h \in T_DenseHistories :
                              h = << >> \/ h[Len(h)].t_ <= StepTime(T_MaxSteps)}
    /\ urbanczik_history_ = eprop_history_
    /\ urbanczik_history_compr_ = << >>
    /\ spike_history_ \in T_SpikeHistories
    /\ last_spike_per_synapse_ \in T_Registries
    /\ n_incoming_ = 1
    /\ is_eprop_readout = FALSE
    /\ now = T_MaxSteps
    /\ syn = NoSyn
    /\ q = [phase |-> "fresh"]
    /\ obs = NoObs

\* the first tidy call; Urbanczik's tidy throws on an empty registry
T_Tidy(variant) ==
    /\ q.phase = "fresh"
    /\ IF last_spike_per_synapse_ = << >>
       THEN /\ obs' = [op |-> "throw"]
            /\ q' = [phase |-> "thrown"]
            /\ UNCHANGED << eprop_history_, spike_history_, urbanczik_history_,
                            last_spike_per_synapse_ >>
       ELSE LET r == T_After(variant)
            IN  /\ eprop_history_' = r.eprop
                /\ spike_history_' = r.spikes
                /\ urbanczik_history_' = r.urbanczik
                /\ last_spike_per_synapse_' = r.registry
                /\ obs' = [op |-> "tidy", threw |-> FALSE]
                /\ q' = [phase |-> "once", variant |-> variant,
                         erased |-> (Len(eprop_history_) - Len(r.eprop))
                                      + (Len(spike_history_) - Len(r.spikes))
                                      + (Len(urbanczik_history_) - Len(r.urbanczik))]
    /\ UNCHANGED << urbanczik_history_compr_, n_incoming_, is_eprop_readout, now, syn >>

\* the same call again, with nothing in between
T_TidyAgain ==
    /\ q.phase = "once"
    /\ LET r == T_After(q.variant)
       IN  /\ eprop_history_' = r.eprop
           /\ spike_history_' = r.spikes
           /\ urbanczik_history_' = r.urbanczik
           /\ last_spike_per_synapse_' = r.registry
           /\ obs' = [op |-> "tidy", threw |-> last_spike_per_synapse_ = << >>]
           /\ q' = [phase |-> "twice", variant |-> q.variant, erased |-> q.erased,
                    before |-> [eprop |-> eprop_history_, spikes |-> spike_history_,
                                urbanczik |-> urbanczik_history_,
                                registry |-> last_spike_per_synapse_]]
    /\ UNCHANGED << urbanczik_history_compr_, n_incoming_, is_eprop_readout, now, syn >>

T_Next ==
    \/ \E v \in T_Variants : T_Tidy(v)
    \/ T_TidyAgain

SpecTidy == T_Init /\ [][T_Next]_vars

\* C13: a second tidy with the same argument, with no write or delivery in
\* between, leaves eprop_history_, spike_history_, urbanczik_history_ and the
\* registry as the first call left them and raises no error, from every
\* state with a non-empty registry.
C13_TidyIdempotent ==
    (q.phase = "twice") =>
        /\ ~obs.threw
        /\ q.before = [eprop |-> eprop_history_, spikes |-> spike_history_,
                       urbanczik |-> urbanczik_history_,
                       registry |-> last_spike_per_synapse_]

\* the first call erased part of a store, the second call found entries left
C13_Witness ==
    /\ q.phase = "twice" /\ q.erased > 0 /\ ~obs.threw
    /\ \/ q.variant = "EpropArchivingNode" /\ eprop_history_ # << >>
                                           /\ spike_history_ # << >>
       \/ q.variant = "Eprop_Archiving_Node" /\ eprop_history_ # << >>
       \/ q.variant = "Urbanczik_Archiving_Node" /\ Len(urbanczik_history_) >= 2

(***************************************************************************)
(* Properties of the range functions and of the release of a checkpoint    *)
(***************************************************************************)
\* C14: when a delivery asks to release a checkpoint time for which the
\* registry holds no slot within stdp_eps, the operation raises a fatal error
\* and does not continue as if the release had succeeded: no send of SpecA
\* completes with a release that found nothing.
C14_ReleaseMissRaises ==
    (obs.op = "send") => obs.found

\* the result every range function gives for start == finish == end()
AtEnd(ts) == << Len(ts), Len(ts) >>

C16_ReversedQueryEmpty ==
    (q.done /\ q.t1 >= q.t2) =>
        /\ q.EAN_grid[1] = q.EAN_grid[2]
        /\ q.Sen_grid[1] = q.Sen_grid[2]
        /\ q.EAN_spike[1] = q.EAN_spike[2]
        /\ q.Cl_scan[1] = q.Cl_scan[2]

(***************************************************************************)
(* SpecW: one node of any of the three registry-based classes, its writer  *)
(* and NSyn synapses that deliver (t_last, t_now - delay] and tidy, with a *)
(* log of everything the writer ever appended to each store.               *)
(***************************************************************************)
W_MaxSteps == 4

\* the store the class keeps its per-step entries in
W_History ==
    IF q.variant = "Urbanczik_Archiving_Node" THEN urbanczik_history_
                                              ELSE eprop_history_

W_Init ==
    /\ eprop_history_ = << >>
    /\ spike_history_ = << >>
    /\ urbanczik_history_ = << >>
    /\ urbanczik_history_compr_ = << >>
    /\ last_spike_per_synapse_ = << >>
    /\ n_incoming_ = 0
    /\ is_eprop_readout = FALSE
    /\ now = 0
    /\ syn = [s \in Synapses |-> [connected |-> FALSE, delay |-> 0, t_last |-> 0]]
    /\ \E v \in T_Variants :
           q = [variant |-> v, seeded |-> (v = "EpropArchivingNode"),
                written |-> << >>, spikes_written |-> << >>]
    /\ obs = NoObs

\* a synapse is connected: EpropArchivingNode registers its first checkpoint
\* at once, the other two classes seed the registry afterwards
W_Connect(s, d) ==
    /\ Alive /\ obs.op # "throw" /\ ~syn[s].connected
    /\ \A r \in Synapses : r < s => syn[r].connected
    /\ q.variant = "EpropArchivingNode" \/ ~q.seeded
    /\ n_incoming_' = n_incoming_ + 1
    /\ IF q.variant = "EpropArchivingNode"
       THEN /\ last_spike_per_synapse_' =
                   EAN_init_eprop_buffers(last_spike_per_synapse_, 2 * StepTime(d))
            /\ syn' = [syn EXCEPT ![s] = [connected |-> TRUE, delay |-> StepTime(d),
                                          t_last |-> 2 * StepTime(d)]]
       ELSE /\ last_spike_per_synapse_' = last_spike_per_synapse_
            /\ syn' = [syn EXCEPT ![s] =
                         [connected |-> TRUE, delay |-> StepTime(d),
                          t_last |-> IF q.variant = "Eprop_Archiving_Node"
                                     THEN SentinelTime
                                     ELSE UrbB_SentinelTime - StepTime(d)]]
    /\ obs' = [op |-> "connect"]
    /\ UNCHANGED << eprop_history_, spike_history_, urbanczik_history_,
                    urbanczik_history_compr_, is_eprop_readout, now, q >>

\* init_eprop_buffers() / init_urbanczik_buffers( comp )
W_Seed ==
    /\ ~q.seeded
    /\ last_spike_per_synapse_' =
           IF q.variant = "Eprop_Archiving_Node"
           THEN Sen_init_eprop_buffers(last_spike_per_synapse_, n_incoming_)
           ELSE UrbB_init_urbanczik_buffers(last_spike_per_synapse_, n_incoming_)
    /\ q' = [q EXCEPT !.seeded = TRUE]
    /\ obs' = [op |-> "seed"]
    /\ UNCHANGED << eprop_history_, spike_history_, urbanczik_history_,
                    urbanczik_history_compr_, n_incoming_, is_eprop_readout, now,
                    syn >>

\* one simulation step of the neuron: an optional spike, then one entry
W_Write(spike) ==
    /\ Alive /\ obs.op # "throw" /\ q.seeded /\ now < W_MaxSteps
    /\ now' = now + 1
    /\ LET t_ms == StepTime(now + 1) IN
       /\ eprop_history_' =
              IF q.variant = "EpropArchivingNode"
              THEN EAN_write_eprop_history(eprop_history_, n_incoming_, t_ms)
              ELSE IF q.variant = "Eprop_Archiving_Node"
              THEN Sen_write_eprop_history(eprop_history_, n_incoming_, t_ms)
              ELSE eprop_history_
       /\ urbanczik_history_' =
              IF q.variant = "Urbanczik_Archiving_Node"
              THEN UrbB_write_urbanczik_history(urbanczik_history_, n_incoming_, t_ms)
              ELSE urbanczik_history_
       /\ spike_history_' =
              IF ~spike \/ q.variant = "Urbanczik_Archiving_Node" THEN spike_history_
              ELSE IF q.variant = "EpropArchivingNode"
              THEN EAN_write_spike_history(spike_history_, t_ms)
              ELSE Sen_write_spike_history(spike_history_, t_ms)
       /\ q' = [q EXCEPT
                  !.written = IF n_incoming_ # 0 THEN Append(@, t_ms) ELSE @,
                  !.spikes_written =
                      IF spike /\ q.variant # "Urbanczik_Archiving_Node"
                      THEN Append(@, t_ms) ELSE @]
    /\ obs' = [op |-> "write"]
    /\ UNCHANGED << urbanczik_history_compr_, last_spike_per_synapse_, n_incoming_,
                    is_eprop_readout, syn >>

\* a delivery to synapse s: the checkpoint moves from t_last to now - delay
W_Deliver(s) ==
    /\ Alive /\ obs.op # "throw" /\ q.seeded /\ syn[s].connected /\ now >= 1
    /\ StepTime(now) - syn[s].delay > syn[s].t_last
    /\ LET t1 == syn[s].t_last
           t2 == StepTime(now) - syn[s].delay
           reg == last_spike_per_synapse_
       IN  /\ IF q.variant = "EpropArchivingNode"
              THEN LET g == EAN_get_eprop_history(reg, Times(eprop_history_),
                                                  t1, t2, t1, t2)
                   IN  /\ last_spike_per_synapse_' = g.reg
                       /\ obs' = [op |-> "deliver"]
              ELSE IF q.variant = "Eprop_Archiving_Node"
              THEN LET g == Sen_get_eprop_history(reg, t1, t2, TRUE)
                   IN  /\ last_spike_per_synapse_' = g.reg
                       /\ obs' = IF g.ub THEN [op |-> "crash"] ELSE [op |-> "deliver"]
              ELSE LET g == UrbB_get_urbanczik_history(reg, t1, t2)
                   IN  /\ last_spike_per_synapse_' = g.reg
                       /\ obs' = IF g.threw THEN [op |-> "throw"] ELSE [op |-> "deliver"]
           /\ syn' = [syn EXCEPT ![s].t_last = t2]
    /\ UNCHANGED << eprop_history_, spike_history_, urbanczik_history_,
                    urbanczik_history_compr_, n_incoming_, is_eprop_readout, now, q >>

\* the tidy call(s) of the class, with a registry that holds a slot
W_Tidy ==
    /\ Alive /\ obs.op # "throw" /\ q.seeded /\ last_spike_per_synapse_ # << >>
    /\ LET r == T_After(q.variant)
       IN  /\ eprop_history_' = r.eprop
           /\ spike_history_' = r.spikes
           /\ urbanczik_history_' = r.urbanczik
    /\ obs' = [op |-> "tidy"]
    /\ UNCHANGED << urbanczik_history_compr_, last_spike_per_synapse_, n_incoming_,
                    is_eprop_readout, now, syn, q >>

W_Next ==
    \/ \E s \in Synapses, d \in 1..MaxDelay : W_Connect(s, d)
    \/ W_Seed
    \/ \E b \in BOOLEAN : W_Write(b)
    \/ \E s \in Synapses : W_Deliver(s)
    \/ W_Tidy

SpecW == W_Init /\ [][W_Next]_vars

\* h is what is left of w after erasing a prefix
IsSuffix(h, w) ==
    /\ Len(h) <= Len(w)
    /\ h = SubSeq(w, Len(w) - Len(h) + 1, Len(w))

\* C17: in the registry-based classes, after any sequence of write, deliver
\* and tidy, each history deque is a contiguous suffix of the sequence of all
\* entries ever written to it, in write order, and the per-step history is
\* dense (entry i has time t_first + i * resolution).
C17_ContiguousSuffix ==
    /\ IsSuffix(Times(W_History), q.written)
    /\ IsSuffix(spike_history_, q.spikes_written)
    /\ Dense(Times(W_History))

\* a write after a tidy that erased part of the history and part of the spikes
C17_Witness ==
    /\ obs.op = "write"
    /\ Len(W_History) >= 2 /\ Len(W_History) < Len(q.written)
    /\ W_History[Len(W_History)].t_ = StepTime(now)
    /\ spike_history_ # << >> /\ Len(spike_history_) < Len(q.spikes_written)

(***************************************************************************)
(* Urbanczik_Archiving_Node, compression variant                           *)
(* (urbanczik_archiving_node_impl.h, lines 245-481) and the                *)
(* UrbanczikConnectionBC that drives it (unnamed/part_003).                *)
(*                                                                         *)
(* The four accumulators of a compressed record are sums of exponentially  *)
(* weighted raw entries.  The model keeps their structure and drops the    *)
(* weights: every raw entry counts 1 and every decay factor is 1, so an    *)
(* accumulator holds the number of raw entries folded into it.             *)
(***************************************************************************)
\* SpecC runs the kernel at a resolution of 1 ms: the literals -1.0 and
\* -1000.0 are 1 and 1000 steps before time zero
UrbC_InitLastSpike_steps == -1
UrbC_NoUpdate_steps == -1000
SizeMax == 2147483647

\* histentry_eextended( t, 0.0, 0.0, 0.0, 0.0, access_counter )
ComprRecord(t, n) ==
    [t_ |-> t, I1_L_ |-> 0, I1_s_ |-> 0, I2_L_ |-> 0, I2_s_ |-> 0,
     access_counter_ |-> n]

\* the outputs I1_L, I1_s, I2_L, I2_s
Outputs(a, b, c, d) == [I1_L |-> a, I1_s |-> b, I2_L |-> c, I2_s |-> d]

\* access_counter_ -= 1 on a size_t; SizeMax stands for the wrapped value
Decrement(n) == IF n = 0 THEN SizeMax ELSE n - 1

\* a lookup that returns the accumulators and leaves the counter alone
Mut_get_urbanczik_value_no_decrement(compr, t_lastspike) ==
    LET runner == SetMin({k \in 0..Len(compr) :
                             k = Len(compr)
                                 \/ ~(Abs(t_lastspike - compr[k + 1].t_) > StdpEps)})
    IN  IF compr = << >> \/ runner = Len(compr)
        THEN [compr |-> compr, out |-> Outputs(0, 0, 0, 0)]
        ELSE [compr |-> compr,
              out |-> Outputs(compr[runner + 1].I1_L_, compr[runner + 1].I1_s_,
                              compr[runner + 1].I2_L_, compr[runner + 1].I2_s_)]

\* Urbanczik_Archiving_Node::get_urbanczik_value.  The loop reads runner->t_
\* before it tests runner against end(); at end() the test ends the loop
\* whatever was read.
UrbC_get_urbanczik_value(compr, t_lastspike) ==
    LET runner == SetMin({k \in 0..Len(compr) :
                             k = Len(compr)
                                 \/ ~(Abs(t_lastspike - compr[k + 1].t_) > StdpEps)})
    IN  IF compr = << >> \/ runner = Len(compr)
        THEN [compr |-> compr, out |-> Outputs(0, 0, 0, 0)]
        ELSE [compr |-> [compr EXCEPT ![runner + 1].access_counter_ = Decrement(@)],
              out |-> Outputs(compr[runner + 1].I1_L_, compr[runner + 1].I1_s_,
                              compr[runner + 1].I2_L_, compr[runner + 1].I2_s_)]

\* a prune test that also drops a record with one reader left
Mut_Unread_or_single(record) == record.access_counter_ > 1

\* the records the pruning loop of compress_urbanczik_history keeps
Unread(record) == ~(record.access_counter_ = 0)

\* how many raw entries the fold loop pops: the front entries with
\* t_ - t_compr_end < 1.0e-6
FoldCount(raw, t_compr_end) ==
    SetMin({k \in 0..Len(raw) :
               k = Len(raw) \/ ~(raw[k + 1].t_ - t_compr_end < StdpEps)})

\* a fold loop that stops in front of the entry at t_compr_end
Mut_compress_before_end(raw, compr, n_in, t_compr_end) ==
    LET t_last_update == IF compr # << >> THEN compr[Len(compr)].t_
                                          ELSE UrbC_NoUpdate_steps * Resolution
        pruned == SelectSeq(compr, Unread)
        k == FoldCount(raw, t_compr_end - Resolution)
    IN  IF n_in = 0
        THEN [raw |-> raw, compr |-> compr, ub |-> FALSE]
        ELSE IF Abs(t_last_update - t_compr_end) < StdpEps
        THEN IF pruned = << >>
             THEN [raw |-> raw, compr |-> pruned, ub |-> TRUE]
             ELSE [raw |-> raw,
                   compr |-> [pruned EXCEPT ![Len(pruned)].access_counter_ = @ + 1],
                   ub |-> FALSE]
        ELSE [raw |-> DropFront(raw, k),
              compr |-> Append([i \in DOMAIN pruned |->
                                   [pruned[i] EXCEPT !.I1_L_ = @ + k, !.I1_s_ = @ + k,
                                                     !.I2_L_ = @ + k, !.I2_s_ = @ + k]],
                               ComprRecord(t_compr_end, 1)),
              ub |-> FALSE]

\* a compression without the test for a second spike in the same time step
Mut_compress_no_same_step_test(raw, compr, n_in, t_compr_end) ==
    LET pruned == SelectSeq(compr, Unread)
        k == FoldCount(raw, t_compr_end)
    IN  IF n_in = 0
        THEN [raw |-> raw, compr |-> compr, ub |-> FALSE]
        ELSE [raw |-> DropFront(raw, k),
              compr |-> Append([i \in DOMAIN pruned |->
                                   [pruned[i] EXCEPT !.I1_L_ = @ + k, !.I1_s_ = @ + k,
                                                     !.I2_L_ = @ + k, !.I2_s_ = @ + k]],
                               ComprRecord(t_compr_end, 1)),
              ub |-> FALSE]

\* Urbanczik_Archiving_Node::compress_urbanczik_history.  ub: rbegin() of a
\* compressed history that the pruning loop has emptied.
UrbC_compress_urbanczik_history(raw, compr, n_in, t_compr_end) ==
    LET t_last_update == IF compr # << >> THEN compr[Len(compr)].t_
                                          ELSE UrbC_NoUpdate_steps * Resolution
        pruned == SelectSeq(compr, Unread)
        k == FoldCount(raw, t_compr_end)
    IN  IF n_in = 0
        THEN [raw |-> raw, compr |-> compr, ub |-> FALSE]
        ELSE IF Abs(t_last_update - t_compr_end) < StdpEps
        THEN IF pruned = << >>
             THEN [raw |-> raw, compr |-> pruned, ub |-> TRUE]
             ELSE [raw |-> raw,
                   compr |-> [pruned EXCEPT ![Len(pruned)].access_counter_ = @ + 1],
                   ub |-> FALSE]
        ELSE [raw |-> DropFront(raw, k),
              compr |-> Append([i \in DOMAIN pruned |->
                                   [pruned[i] EXCEPT !.I1_L_ = @ + k, !.I1_s_ = @ + k,
                                                     !.I2_L_ = @ + k, !.I2_s_ = @ + k]],
                               ComprRecord(t_compr_end, 1)),
              ub |-> FALSE]

\* how many entries the pruning loop of write_urbanczik_history pops
WritePruneCount(hist, n_in) ==
    SetMin({k \in 0..Len(hist) :
               ~(Len(hist) - k > 1) \/ ~(hist[k + 1].access_counter_ >= n_in)})

\* Urbanczik_Archiving_Node::write_urbanczik_history (compression variant)
UrbC_write_urbanczik_history(hist, n_in, t_ms) ==
    IF n_in # 0
    THEN Append(DropFront(hist, WritePruneCount(hist, n_in)), Entry(t_ms))
    ELSE hist

(***************************************************************************)
(* SpecC: one compartment of the compression variant, its writer and NSyn  *)
(* UrbanczikConnectionBC synapses.                                         *)
(***************************************************************************)
C_MaxSteps == 4

C_Init ==
    /\ eprop_history_ = << >>
    /\ spike_history_ = << >>
    /\ urbanczik_history_ = << >>
    /\ urbanczik_history_compr_ = << >>
    /\ last_spike_per_synapse_ = << >>
    /\ n_incoming_ = 0
    /\ is_eprop_readout = FALSE
    /\ now = 0
    /\ syn = [s \in Synapses |->
                 [connected |-> FALSE, delay |-> 0,
                  t_lastspike_ |-> UrbC_InitLastSpike_steps * Resolution]]
    /\ q = NoQuery
    /\ obs = NoObs

\* UrbanczikConnectionBC::check_connection: register_stdp_connection counts
\* the synapse in n_incoming_
C_Connect(s, d) ==
    /\ Alive /\ ~syn[s].connected
    /\ \A r \in Synapses : r < s => syn[r].connected
    /\ syn' = [syn EXCEPT ![s].connected = TRUE, ![s].delay = StepTime(d)]
    /\ n_incoming_' = n_incoming_ + 1
    /\ obs' = NoObs
    /\ UNCHANGED << eprop_history_, spike_history_, urbanczik_history_,
                    urbanczik_history_compr_, last_spike_per_synapse_,
                    is_eprop_readout, now, q >>

\* one simulation step: the neuron writes one raw entry
C_Step ==
    /\ Alive /\ now < C_MaxSteps
    /\ now' = now + 1
    /\ urbanczik_history_' =
           UrbC_write_urbanczik_history(urbanczik_history_, n_incoming_,
                                        StepTime(now + 1))
    /\ obs' = NoObs
    /\ UNCHANGED << eprop_history_, spike_history_, urbanczik_history_compr_,
                    last_spike_per_synapse_, n_incoming_, is_eprop_readout, syn, q >>

\* UrbanczikConnectionBC::send for a presynaptic spike stamped with the
\* current time (at most one per synapse and step)
C_Send(s) ==
    /\ Alive /\ syn[s].connected /\ now >= 1
    /\ StepTime(now) > syn[s].t_lastspike_
    /\ LET t_spike == StepTime(now)
           dendritic_delay == syn[s].delay
           c == UrbC_compress_urbanczik_history(urbanczik_history_,
                    urbanczik_history_compr_, n_incoming_, t_spike - dendritic_delay)
           v == UrbC_get_urbanczik_value(c.compr, syn[s].t_lastspike_ - dendritic_delay)
       IN  IF c.ub
           THEN /\ obs' = [op |-> "crash"]
                /\ UNCHANGED << urbanczik_history_, urbanczik_history_compr_, syn >>
           ELSE /\ urbanczik_history_' = c.raw
                /\ urbanczik_history_compr_' = v.compr
                /\ syn' = [syn EXCEPT ![s].t_lastspike_ = t_spike]
                /\ obs' = [op |-> "send",
                           t_compr_end |-> t_spike - dendritic_delay,
                           key |-> syn[s].t_lastspike_ - dendritic_delay,
                           raw_before |-> urbanczik_history_,
                           compr_before |-> urbanczik_history_compr_,
                           compr_compressed |-> c.compr,
                           out |-> v.out]
    /\ UNCHANGED << eprop_history_, spike_history_, last_spike_per_synapse_,
                    n_incoming_, is_eprop_readout, now, q >>

C_Next ==
    \/ \E s \in Synapses, d \in 1..MaxDelay : C_Connect(s, d)
    \/ C_Step
    \/ \E s \in Synapses : C_Send(s)

SpecC == C_Init /\ [][C_Next]_vars

FirstMatch(compr, key) ==
    IF \E i \in DOMAIN compr : Abs(key - compr[i].t_) <= StdpEps
    THEN SetMin({i \in DOMAIN compr : Abs(key - compr[i].t_) <= StdpEps})
    ELSE 0

C20_CompressFoldsAndAppends ==
    (/\ obs.op = "send"
     /\ n_incoming_ > 0
     /\ obs.compr_before # << >> =>
            obs.compr_before[Len(obs.compr_before)].t_ # obs.t_compr_end) =>
        LET raw == obs.raw_before
            mid == obs.compr_compressed
            later == {i \in DOMAIN raw : ~(raw[i].t_ - obs.t_compr_end < StdpEps)}
            unread == {i \in DOMAIN obs.compr_before :
                          obs.compr_before[i].access_counter_ # 0}
        IN  /\ Len(urbanczik_history_) = Cardinality(later)
            /\ \A i \in later :
                   urbanczik_history_[Cardinality({j \in later : j <= i})] = raw[i]
            /\ Len(mid) = Cardinality(unread) + 1
            /\ mid[Len(mid)] = [t_ |-> obs.t_compr_end, I1_L_ |-> 0, I1_s_ |-> 0,
                                I2_L_ |-> 0, I2_s_ |-> 0, access_counter_ |-> 1]

\* a compression that folded some raw entries, left later ones and appended
\* to a non-empty compressed history
C20_Witness ==
    /\ obs.op = "send"
    /\ obs.compr_before # << >>
    /\ obs.compr_before[Len(obs.compr_before)].t_ # obs.t_compr_end
    /\ urbanczik_history_ # << >>
    /\ Len(urbanczik_history_) < Len(obs.raw_before)
(***************************************************************************)
(* SpecReg: EpropArchivingNode::register_update applied once to every      *)
(* well-formed registry of up to two slots (ascending, more than stdp_eps  *)
(* apart, counters 1..NSyn) and every pair of checkpoints.                 *)
(***************************************************************************)
\* the registries register_update and init_eprop_buffers can build
Rg_Registries ==
    {<< >>}
    \cup {<< Slot(t, n) >> : t \in CycleTimes, n \in 1..NSyn}
    \cup {<< Slot(t[1], n[1]), Slot(t[2], n[2]) >> :
             t \in {p \in CycleTimes \X CycleTimes : p[2] - p[1] > StdpEps},
             n \in (1..NSyn) \X (1..NSyn)}

\* a register_update that releases the old checkpoint before it registers
\* the new one
Mut_register_update_release_first(reg, t_lastupdate, t_update) ==
    LET it_reg == LowerBound(Times(reg), 0, t_lastupdate - StdpEps)
        found == ~(it_reg = Len(reg) \/ Abs(t_lastupdate - reg[it_reg + 1].t_) > StdpEps)
        decremented == IF found THEN [reg EXCEPT ![it_reg + 1].access_counter_ = @ - 1]
                                ELSE reg
        released == EAN_release_old(reg, t_lastupdate).reg
    IN  << reg, decremented, released, EAN_register_new(released, t_update) >>

\* EpropArchivingNode::register_update, statement by statement: the registry
\* on entry, after the insert or increment of the new checkpoint, after the
\* decrement of the old one, and on return
EAN_register_update_steps(reg, t_lastupdate, t_update) ==
    LET registered == EAN_register_new(reg, t_update)
        it_reg == LowerBound(Times(registered), 0, t_lastupdate - StdpEps)
        found == ~(it_reg = Len(registered)
                      \/ Abs(t_lastupdate - registered[it_reg + 1].t_) > StdpEps)
        decremented == IF found
                       THEN [registered EXCEPT ![it_reg + 1].access_counter_ = @ - 1]
                       ELSE registered
    IN  << reg, registered, decremented,
           EAN_register_update(reg, t_lastupdate, t_update).reg >>

Rg_Init ==
    /\ eprop_history_ = << >>
    /\ spike_history_ = << >>
    /\ urbanczik_history_ = << >>
    /\ urbanczik_history_compr_ = << >>
    /\ last_spike_per_synapse_ \in Rg_Registries
    /\ n_incoming_ = 0
    /\ is_eprop_readout = FALSE
    /\ now = 0
    /\ syn = NoSyn
    /\ \E t_lastupdate \in CycleTimes, t_update \in CycleTimes :
           q = [done |-> FALSE, t_lastupdate |-> t_lastupdate, t_update |-> t_update]
    /\ obs = NoObs

\* one call register_update( t_lastupdate, t_update )
Rg_RegisterUpdate ==
    /\ ~q.done
    /\ LET steps == EAN_register_update_steps(last_spike_per_synapse_,
                                              q.t_lastupdate, q.t_update)
       IN  /\ last_spike_per_synapse_' = steps[Len(steps)]
           /\ obs' = [op |-> "register_update", steps |-> steps]
    /\ q' = [q EXCEPT !.done = TRUE]
    /\ UNCHANGED << eprop_history_, spike_history_, urbanczik_history_,
                    urbanczik_history_compr_, n_incoming_, is_eprop_readout, now, syn >>

Rg_Next == Rg_RegisterUpdate

SpecReg == Rg_Init /\ [][Rg_Next]_vars

\* C21: register_update(t, t) with old and new checkpoint equal and a slot at
\* t present leaves the registry exactly as it was, and because the new
\* checkpoint is inserted or incremented before the old one is decremented,
\* the registry is non-empty at every intermediate step of any
\* register_update call that starts from a non-empty registry.
C21_SameCheckpointAndNeverEmpty ==
    (obs.op = "register_update") =>
        /\ (/\ q.t_lastupdate = q.t_update
            /\ \E i \in DOMAIN obs.steps[1] :
                   Abs(obs.steps[1][i].t_ - q.t_update) <= StdpEps)
               => last_spike_per_synapse_ = obs.steps[1]
        /\ obs.steps[1] # << >> =>
               \A k \in DOMAIN obs.steps : obs.steps[k] # << >>

\* a call that moves the only synapse of a single slot to a new checkpoint:
\* the old slot is erased and the registry still holds a slot throughout
C21_Witness ==
    /\ obs.op = "register_update"
    /\ Len(obs.steps[1]) = 1 /\ obs.steps[1][1].access_counter_ = 1
    /\ q.t_lastupdate = obs.steps[1][1].t_
    /\ Abs(q.t_update - q.t_lastupdate) > StdpEps
    /\ last_spike_per_synapse_ = << Slot(q.t_update, 1) >>

(***************************************************************************)
(* SpecN: the compression variant with its weights.                        *)
(*                                                                         *)
(* Every accumulator is a sum of terms dw(t) * exp( a / tau_L ) *          *)
(* exp( b / tau_s ) * exp( c / tau_Delta ), one term per folded raw entry  *)
(* (an entry is popped when it is folded, so no record receives it         *)
(* twice).  A value is kept as the set of its terms, a term as the time t  *)
(* of its raw entry and the three exponents a, b, c in ticks.  A product   *)
(* with exp( k / tau ) adds k to the exponent, a sum is a union: two       *)
(* values are equal for all time constants and all dw exactly if their     *)
(* term sets are equal.                                                    *)
(***************************************************************************)
N_MaxSteps == 4

Term(t, a, b, c) == [t |-> t, L |-> a, s |-> b, D |-> c]

\* value * exp( k / tau_Delta )
TimesExpDelta(value, k) == {Term(x.t, x.L, x.s, x.D + k) : x \in value}
\* value * exp( k / tau_L )
TimesExpL(value, k) == {Term(x.t, x.L + k, x.s, x.D) : x \in value}
\* value * exp( k / tau_s )
TimesExpS(value, k) == {Term(x.t, x.L, x.s + k, x.D) : x \in value}

\* histentry_eextended( t, 0.0, 0.0, 0.0, 0.0, access_counter )
NumRecord(t, n) ==
    [t_ |-> t, I1_L_ |-> {}, I1_s_ |-> {}, I2_L_ |-> {}, I2_s_ |-> {},
     access_counter_ |-> n]

\* Urbanczik_Archiving_Node::get_urbanczik_value on records with weights
Num_get_urbanczik_value(compr, t_lastspike) ==
    LET runner == SetMin({k \in 0..Len(compr) :
                             k = Len(compr)
                                 \/ ~(Abs(t_lastspike - compr[k + 1].t_) > StdpEps)})
    IN  IF compr = << >> \/ runner = Len(compr)
        THEN [compr |-> compr, out |-> Outputs({}, {}, {}, {}), found |-> FALSE]
        ELSE [compr |-> [compr EXCEPT ![runner + 1].access_counter_ = Decrement(@)],
              out |-> Outputs(compr[runner + 1].I1_L_, compr[runner + 1].I1_s_,
                              compr[runner + 1].I2_L_, compr[runner + 1].I2_s_),
              found |-> TRUE]

\* Urbanczik_Archiving_Node::compress_urbanczik_history with its weights.
\* PI_integral_* and dPI_exp_integral_* are the sums of lines 410-415 over the
\* popped entries; the record loop is lines 427-438.
Num_compress_urbanczik_history(raw, compr, n_in, t_compr_end) ==
    LET t_last_update == IF compr # << >> THEN compr[Len(compr)].t_
                                          ELSE UrbC_NoUpdate_steps * Resolution
        pruned == SelectSeq(compr, Unread)
        k == FoldCount(raw, t_compr_end)
        popped == {raw[i].t_ : i \in 1..k}
        PI_integral_L == {Term(t_up, t_last_update - t_up, 0, 0) : t_up \in popped}
        PI_integral_s == {Term(t_up, 0, t_last_update - t_up, 0) : t_up \in popped}
        dPI_exp_integral_L ==
            {Term(t_up, t_last_update - t_up, 0, t_up - t_compr_end) : t_up \in popped}
        dPI_exp_integral_s ==
            {Term(t_up, 0, t_last_update - t_up, t_up - t_compr_end) : t_up \in popped}
        Updated(r) ==
            [r EXCEPT
                !.I1_L_ = @ \cup TimesExpL(PI_integral_L, r.t_ - t_last_update),
                !.I1_s_ = @ \cup TimesExpS(PI_integral_s, r.t_ - t_last_update),
                !.I2_L_ = TimesExpDelta(@, t_last_update - t_compr_end)
                              \cup TimesExpL(dPI_exp_integral_L, r.t_ - t_last_update),
                !.I2_s_ = TimesExpDelta(@, t_last_update - t_compr_end)
                              \cup TimesExpS(dPI_exp_integral_s, r.t_ - t_last_update)]
    IN  IF n_in = 0
        THEN [raw |-> raw, compr |-> compr, ub |-> FALSE]
        ELSE IF Abs(t_last_update - t_compr_end) < StdpEps
        THEN IF pruned = << >>
             THEN [raw |-> raw, compr |-> pruned, ub |-> TRUE]
             ELSE [raw |-> raw,
                   compr |-> [pruned EXCEPT ![Len(pruned)].access_counter_ = @ + 1],
                   ub |-> FALSE]
        ELSE [raw |-> DropFront(raw, k),
              compr |-> Append([i \in DOMAIN pruned |-> Updated(pruned[i])],
                               NumRecord(t_compr_end, 1)),
              ub |-> FALSE]

N_Init ==
    /\ eprop_history_ = << >>
    /\ spike_history_ = << >>
    /\ urbanczik_history_ = << >>
    /\ urbanczik_history_compr_ = << >>
    /\ last_spike_per_synapse_ = << >>
    /\ n_incoming_ = 0
    /\ is_eprop_readout = FALSE
    /\ now = 0
    /\ syn = [s \in Synapses |->
                 [connected |-> FALSE, delay |-> 0,
                  t_lastspike_ |-> UrbC_InitLastSpike_steps * Resolution]]
    /\ q = [written |-> {}]
    /\ obs = NoObs

\* UrbanczikConnectionBC::check_connection
N_Connect(s, d) ==
    /\ Alive /\ ~syn[s].connected
    /\ \A r \in Synapses : r < s => syn[r].connected
    /\ syn' = [syn EXCEPT ![s].connected = TRUE, ![s].delay = StepTime(d)]
    /\ n_incoming_' = n_incoming_ + 1
    /\ obs' = NoObs
    /\ UNCHANGED << eprop_history_, spike_history_, urbanczik_history_,
                    urbanczik_history_compr_, last_spike_per_synapse_,
                    is_eprop_readout, now, q >>

\* one simulation step: the neuron writes one raw entry; q.written keeps the
\* times of all entries ever written
N_Step ==
    /\ Alive /\ now < N_MaxSteps
    /\ now' = now + 1
    /\ urbanczik_history_' =
           UrbC_write_urbanczik_history(urbanczik_history_, n_incoming_,
                                        StepTime(now + 1))
    /\ q' = [written |-> IF n_incoming_ # 0 THEN q.written \cup {StepTime(now + 1)}
                                            ELSE q.written]
    /\ obs' = NoObs
    /\ UNCHANGED << eprop_history_, spike_history_, urbanczik_history_compr_,
                    last_spike_per_synapse_, n_incoming_, is_eprop_readout, syn >>

\* UrbanczikConnectionBC::send for a presynaptic spike stamped with the
\* current time (at most one per synapse and step)
N_Send(s) ==
    /\ Alive /\ syn[s].connected /\ now >= 1
    /\ StepTime(now) > syn[s].t_lastspike_
    /\ LET t_spike == StepTime(now)
           dendritic_delay == syn[s].delay
           c == Num_compress_urbanczik_history(urbanczik_history_,
                    urbanczik_history_compr_, n_incoming_, t_spike - dendritic_delay)
           v == Num_get_urbanczik_value(c.compr, syn[s].t_lastspike_ - dendritic_delay)
       IN  IF c.ub
           THEN /\ obs' = [op |-> "crash"]
                /\ UNCHANGED << urbanczik_history_, urbanczik_history_compr_, syn >>
           ELSE /\ urbanczik_history_' = c.raw
                /\ urbanczik_history_compr_' = v.compr
                /\ syn' = [syn EXCEPT ![s].t_lastspike_ = t_spike]
                /\ obs' = [op |-> "send", synapse |-> s,
                           t_compr_end |-> t_spike - dendritic_delay,
                           key |-> syn[s].t_lastspike_ - dendritic_delay,
                           found |-> v.found,
                           out |-> v.out]
    /\ UNCHANGED << eprop_history_, spike_history_, last_spike_per_synapse_,
                    n_incoming_, is_eprop_readout, now, q >>

N_Next ==
    \/ \E s \in Synapses, d \in 1..MaxDelay : N_Connect(s, d)
    \/ N_Step
    \/ \E s \in Synapses : N_Send(s)

SpecN == N_Init /\ [][N_Next]_vars

\* the sums over the raw entries written in (key, t_end], each decayed from
\* the key with tau_L or tau_s and, for I2, to t_end with tau_Delta
BruteForce(written, key, t_end) ==
    LET window == {t \in written : key < t /\ t <= t_end}
    IN  Outputs({Term(t, key - t, 0, 0) : t \in window},
                {Term(t, 0, key - t, 0) : t \in window},
                {Term(t, key - t, 0, t - t_end) : t \in window},
                {Term(t, 0, key - t, t - t_end) : t \in window})

\* C22: in the compression variant the four accumulators (I1_L, I1_s, I2_L,
\* I2_s) that get_urbanczik_value(key) returns after the
\* compress_urbanczik_history calls over the window from key to the last
\* compression time equal the brute-force sums of the exponentially decayed
\* contributions of all raw entries written in that window.
C22_CompressionEquivalence ==
    (obs.op = "send" /\ obs.found) =>
        obs.out = BruteForce(q.written, obs.key, obs.t_compr_end)

(***************************************************************************)
(* Further properties of the range functions (SpecRange)                   *)
(***************************************************************************)
\* begin() <= start <= finish <= end() for an iterator pair given as offsets
WithinBounds(ts, r) == 0 <= r[1] /\ r[1] <= r[2] /\ r[2] <= Len(ts)

\* C23: for every non-empty dense history and every query (t1, t2), the
\* iterator pair returned by the grid-addressed range
\* (find_eprop_hist_entries, Eprop_Archiving_Node::get_eprop_history,
\* block-variant get_urbanczik_history) satisfies
\* begin() <= start <= finish <= end(): start never lies past end() and never
\* past finish, including when t1 is later than the newest entry.
C23_GridRangeWithinBounds ==
    (q.done /\ eprop_history_ # << >> /\ Dense(Times(eprop_history_))) =>
        LET ts == Times(eprop_history_) IN
        /\ WithinBounds(ts, q.EAN_grid)
        /\ WithinBounds(ts, q.Sen_grid)
        /\ WithinBounds(ts, q.UrbB_grid)

(***************************************************************************)
(* SpecSplit: two consecutive deliveries (a, b] and (b, c] and the single  *)
(* delivery (a, c] on the same unchanged store, for every range function.  *)
(***************************************************************************)
Sp_MaxSteps == 3

Sp_StepTimes == {k * Resolution : k \in 0..Sp_MaxSteps}
Sp_QueryTimes == {k * TimeQuantum : k \in (-4)..(4 * (Sp_MaxSteps + 1))}
Sp_Histories == {SeqOfSet(S) : S \in SUBSET Sp_StepTimes}

Sp_Init ==
    /\ \E ts \in Sp_Histories : eprop_history_ = [i \in DOMAIN ts |-> Entry(ts[i])]
    /\ \E a \in Sp_QueryTimes, b \in Sp_QueryTimes, c \in Sp_QueryTimes :
           /\ a <= b /\ b <= c
           /\ q = [done |-> FALSE, a |-> a, b |-> b, c |-> c]
    /\ spike_history_ = << >>
    /\ urbanczik_history_ = << >>
    /\ urbanczik_history_compr_ = << >>
    /\ last_spike_per_synapse_ = << >>
    /\ n_incoming_ = 0
    /\ is_eprop_readout = FALSE
    /\ now = 0
    /\ syn = NoSyn
    /\ obs = NoObs

\* the iterator pairs of deliver(a, b), deliver(b, c) and deliver(a, c)
Deliveries(range(_, _, _), ts, a, b, c) ==
    [ab |-> range(ts, a, b), bc |-> range(ts, b, c), ac |-> range(ts, a, c)]

\* every range operation applied to the stored times with the three bounds
Sp_Query ==
    /\ ~q.done
    /\ LET ts == Times(eprop_history_) IN
       q' = [done |-> TRUE, a |-> q.a, b |-> q.b, c |-> q.c,
             EAN_spike |-> Deliveries(EAN_get_spike_history, ts, q.a, q.b, q.c),
             Sen_spike |-> Deliveries(Sen_get_spike_history, ts, q.a, q.b, q.c),
             Cl_scan |-> Deliveries(Cl_get_eprop_history, ts, q.a, q.b, q.c),
             UrbC_scan |-> Deliveries(UrbC_get_urbanczik_history, ts, q.a, q.b, q.c),
             EAN_grid |-> Deliveries(EAN_find_eprop_hist_entries, ts, q.a, q.b, q.c),
             Sen_grid |-> Deliveries(Sen_find_range, ts, q.a, q.b, q.c),
             UrbB_grid |-> Deliveries(UrbB_find_range, ts, q.a, q.b, q.c)]
    /\ UNCHANGED << eprop_history_, spike_history_, urbanczik_history_,
                    urbanczik_history_compr_, last_spike_per_synapse_, n_incoming_,
                    is_eprop_readout, now, syn, obs >>

Sp_Next == Sp_Query

SpecSplit == Sp_Init /\ [][Sp_Next]_vars

\* an iterator pair is a range only if start does not lie behind finish
IsRange(r) == r[1] <= r[2]

\* the two consecutive deliveries are ranges, share no position and together
\* cover exactly the positions of the single delivery
Partition(d) ==
    /\ IsRange(d.ab) /\ IsRange(d.bc) /\ IsRange(d.ac)
    /\ (d.ab[1] < d.ab[2] /\ d.bc[1] < d.bc[2]) => d.ab[2] <= d.bc[1]
    /\ \A i \in 1..Len(eprop_history_) :
           (d.ac[1] < i /\ i <= d.ac[2])
               <=> ((d.ab[1] < i /\ i <= d.ab[2]) \/ (d.bc[1] < i /\ i <= d.bc[2]))

\* C24: for the same synapse and an unchanged store, two consecutive
\* deliveries deliver(a, b) and deliver(b, c) with a <= b <= c return disjoint
\* slices whose union is exactly the slice that deliver(a, c) returns: every
\* stored entry in the covered span is handed to the synapse exactly once.
\* This holds for the grid-addressed and the search-addressed range of every
\* variant.
C24_ConsecutiveDeliveriesPartition ==
    q.done =>
        /\ Partition(q.EAN_spike) /\ Partition(q.Sen_spike)
        /\ Partition(q.Cl_scan) /\ Partition(q.UrbC_scan)
        /\ (eprop_history_ # << >> /\ Dense(Times(eprop_history_))) =>
               /\ Partition(q.EAN_grid)
               /\ Partition(q.Sen_grid)
               /\ Partition(q.UrbB_grid)

(***************************************************************************)
(* What EpropArchivingNode::tidy_eprop_history leaves behind (SpecTidy)    *)
(***************************************************************************)
\* the stores hold nothing older than the watermark
NoDeadPrefix(watermark) ==
    /\ \A i \in DOMAIN eprop_history_ : ~(eprop_history_[i].t_ < watermark)
    /\ \A i \in DOMAIN spike_history_ : ~(spike_history_[i] < watermark - StdpEps)

\* C26: immediately after EpropArchivingNode::tidy_eprop_history returns
\* (registry non-empty, history dense), eprop_history_ contains no entry with
\* time < the registry's minimum checkpoint time and spike_history_ contains
\* no spike with time < that minimum - 1e-6: tidy removes the whole dead
\* prefix, not just part of it.
C26_TidyRemovesDeadPrefix ==
    (q.phase = "once" /\ q.variant = "EpropArchivingNode") =>
        NoDeadPrefix(T_Oldest)
(***************************************************************************)
(* SpecL: one EpropArchivingNode whose NSyn EpropConnection objects are    *)
(* all created before the first step, run long enough for a connection     *)
(* with the constructor's update interval to advance twice, with a tidy    *)
(* that is called again and again.                                         *)
(***************************************************************************)
L_MaxSteps == 20
L_SpikeSteps == 1

L_Init ==
    /\ eprop_history_ = << >>
    /\ spike_history_ = << >>
    /\ urbanczik_history_ = << >>
    /\ urbanczik_history_compr_ = << >>
    /\ last_spike_per_synapse_ = << >>
    /\ n_incoming_ = 0
    /\ is_eprop_readout = FALSE
    /\ now = 0
    /\ syn = NoSyn
    /\ q = NoQuery
    /\ obs = NoObs

\* the network is built before Simulate
L_Connect(s, d, with_status) ==
    /\ now = 0
    /\ A_Connect(s, d, with_status)

\* aif_psc_delta_eprop::update, one lag; the neuron spikes only during the
\* first L_SpikeSteps steps
L_Step(spike) ==
    /\ Alive /\ now < L_MaxSteps
    /\ spike => now < L_SpikeSteps
    /\ now' = now + 1
    /\ spike_history_' =
           IF spike THEN EAN_write_spike_history(spike_history_, StepTime(now + 1))
                    ELSE spike_history_
    /\ eprop_history_' =
           EAN_write_eprop_history(eprop_history_, n_incoming_, StepTime(now + 1))
    /\ obs' = NoObs
    /\ UNCHANGED << urbanczik_history_, urbanczik_history_compr_,
                    last_spike_per_synapse_, n_incoming_, is_eprop_readout, syn, q >>

\* EpropConnection::send that passes the test t_spike > t_nextupdate_
L_Send(s) ==
    /\ StepTime(now) > syn[s].t_nextupdate_
    /\ A_Send(s)

L_Next ==
    \/ \E s \in Synapses, d \in 1..MaxDelay, b \in BOOLEAN : L_Connect(s, d, b)
    \/ \E b \in BOOLEAN : L_Step(b)
    \/ \E s \in Synapses : L_Send(s)
    \/ A_Tidy

\* the update loop of the neuron calls tidy_eprop_history in every step
SpecL == L_Init /\ [][L_Next]_vars /\ WF_vars(A_Tidy)

\* every synapse is connected
AllConnected == \A s \in Synapses : syn[s].connected

\* the oldest checkpoint a synapse holds
MinCheckpoint == SetMin({syn[s].cp : s \in Synapses})

\* no eprop-history entry and no spike with time < t is stored
NothingBefore(t) ==
    /\ \A i \in DOMAIN eprop_history_ : eprop_history_[i].t_ >= t
    /\ \A i \in DOMAIN spike_history_ : spike_history_[i] >= t

\* C25: in EpropArchivingNode, under fair scheduling in which every connected
\* synapse eventually advances its checkpoint (register_update) to a time
\* >= t and tidy_eprop_history is called afterwards, every eprop-history
\* entry and every spike with time < t is eventually erased: no entry stays
\* in the store forever once no synapse can need it.  A synapse's checkpoint
\* never moves back, so this is: from every state in which all synapses are
\* connected, a state is reached in which nothing older than the oldest
\* checkpoint the synapses then hold is stored.
C25_DeadEntriesEventuallyErased ==
    AllConnected ~> (AllConnected /\ NothingBefore(MinCheckpoint))
(***************************************************************************)
(* The access-counter variants: Eprop_Archiving_Node of unnamed/part_001   *)
(* and the scan of Urbanczik_Archiving_Node                                *)
(* (urbanczik_archiving_node_impl.h, lines 272-304 and 445-479).           *)
(***************************************************************************)
\* the second loop of the scan: ( runner->access_counter_ )++ from start to finish
CountRange(hist, r) ==
    [i \in DOMAIN hist |->
        IF r[1] < i /\ i <= r[2]
        THEN [hist[i] EXCEPT !.access_counter_ = @ + 1]
        ELSE hist[i]]

\* Eprop_Archiving_Node::get_eprop_history (access-counter variant): the
\* iterator pair and the store with its counters
Cl_get_eprop_history_counted(hist, t1, t2) ==
    LET r == Cl_get_eprop_history(Times(hist), t1, t2)
    IN  [range |-> r, hist |-> CountRange(hist, r)]

\* Urbanczik_Archiving_Node::get_urbanczik_history (access-counter variant):
\* the iterator pair and the store with its counters
UrbC_get_urbanczik_history_counted(hist, t1, t2) ==
    LET r == UrbC_get_urbanczik_history(Times(hist), t1, t2)
    IN  [range |-> r, hist |-> CountRange(hist, r)]

\* a writer that pops a front entry as soon as one synapse has read it
Mut_write_eprop_history_read_once(hist, n_in, t_ms) ==
    LET k == SetMin({j \in 0..Len(hist) :
                        ~(Len(hist) - j > 1) \/ ~(hist[j + 1].access_counter_ >= 1)})
    IN  IF n_in # 0 THEN Append(DropFront(hist, k), Entry(t_ms)) ELSE hist

\* Eprop_Archiving_Node::write_eprop_history (access-counter variant)
Cl_write_eprop_history(hist, n_in, t_ms) ==
    IF n_in # 0
    THEN Append(DropFront(hist, WritePruneCount(hist, n_in)), Entry(t_ms))
    ELSE hist

(***************************************************************************)
(* SpecK: a neuron of each access-counter class, written once per step,    *)
(* and NSyn synapses that each read the ranges                             *)
(* ( t_last - delay, t_spike - delay ] of their consecutive spikes.        *)
(***************************************************************************)
K_MaxSteps == 4

K_Init ==
    /\ eprop_history_ = << >>
    /\ spike_history_ = << >>
    /\ urbanczik_history_ = << >>
    /\ urbanczik_history_compr_ = << >>
    /\ last_spike_per_synapse_ = << >>
    /\ n_incoming_ = 0
    /\ is_eprop_readout = FALSE
    /\ now = 0
    /\ syn = [s \in Synapses |-> [connected |-> FALSE, delay |-> 0, t_last |-> 0]]
    /\ q = [read |-> [s \in Synapses |-> {}]]
    /\ obs = NoObs

\* register_stdp_connection counts the synapse in n_incoming_
K_Connect(s, d) ==
    /\ ~syn[s].connected
    /\ \A r \in Synapses : r < s => syn[r].connected
    /\ syn' = [syn EXCEPT ![s].connected = TRUE, ![s].delay = StepTime(d)]
    /\ n_incoming_' = n_incoming_ + 1
    /\ obs' = NoObs
    /\ UNCHANGED << eprop_history_, spike_history_, urbanczik_history_,
                    urbanczik_history_compr_, last_spike_per_synapse_,
                    is_eprop_readout, now, q >>

\* one simulation step: each neuron prunes its front and writes one entry
K_Step ==
    /\ now < K_MaxSteps
    /\ now' = now + 1
    /\ eprop_history_' =
           Cl_write_eprop_history(eprop_history_, n_incoming_, StepTime(now + 1))
    /\ urbanczik_history_' =
           UrbC_write_urbanczik_history(urbanczik_history_, n_incoming_,
                                        StepTime(now + 1))
    /\ obs' = [op |-> "write", eprop_before |-> eprop_history_,
               urbanczik_before |-> urbanczik_history_]
    /\ UNCHANGED << spike_history_, urbanczik_history_compr_,
                    last_spike_per_synapse_, n_incoming_, is_eprop_readout, syn, q >>

\* a spike of synapse s at the current step: it reads the range that follows
\* its previous one; q.read keeps the times each synapse has been handed
K_Read(s) ==
    /\ syn[s].connected /\ now >= 1
    /\ StepTime(now) > syn[s].t_last
    /\ LET t1 == syn[s].t_last - syn[s].delay
           t2 == StepTime(now) - syn[s].delay
           e == Cl_get_eprop_history_counted(eprop_history_, t1, t2)
           u == UrbC_get_urbanczik_history_counted(urbanczik_history_, t1, t2)
       IN  /\ eprop_history_' = e.hist
           /\ urbanczik_history_' = u.hist
           /\ q' = [read |-> [q.read EXCEPT ![s] =
                        @ \cup Slice(Times(eprop_history_), e.range)]]
           /\ obs' = [op |-> "read", synapse |-> s, t1 |-> t1, t2 |-> t2,
                      eprop_before |-> eprop_history_,
                      urbanczik_before |-> urbanczik_history_,
                      eprop_range |-> e.range, urbanczik_range |-> u.range]
    /\ syn' = [syn EXCEPT ![s].t_last = StepTime(now)]
    /\ UNCHANGED << spike_history_, urbanczik_history_compr_,
                    last_spike_per_synapse_, n_incoming_, is_eprop_readout, now >>

K_Next ==
    \/ \E s \in Synapses, d \in 1..MaxDelay : K_Connect(s, d)
    \/ K_Step
    \/ \E s \in Synapses : K_Read(s)

SpecK == K_Init /\ [][K_Next]_vars

\* what a write did to a store: k entries popped from the front, each with
\* access_counter_ >= n_incoming_ and each already handed to every synapse,
\* at least one old entry left, the new entry appended
PoppedOnlyRead(before, after) ==
    \E k \in 0..Len(before) :
        /\ after = Append(DropFront(before, k), Entry(StepTime(now)))
        /\ before # << >> => k < Len(before)
        /\ \A i \in 1..k :
               /\ before[i].access_counter_ >= n_incoming_
               /\ \A s \in Synapses : syn[s].connected => before[i].t_ \in q.read[s]

\* what a read did to a store: the counters of the entries of the returned
\* range [begin + r[1], begin + r[2]) are one higher, nothing else has
\* changed, and the range holds the entries with t1 < time <= t2
CountedExactlyRange(before, after, r, t1, t2) ==
    /\ Len(after) = Len(before)
    /\ \A i \in DOMAIN before :
           /\ (r[1] < i /\ i <= r[2]) =>
                  after[i] = [before[i] EXCEPT !.access_counter_ = @ + 1]
           /\ ~(r[1] < i /\ i <= r[2]) => after[i] = before[i]
           /\ (r[1] < i /\ i <= r[2]) <=> (t1 < before[i].t_ /\ before[i].t_ <= t2)

\* C27: in the counter-based variants, write_eprop_history /
\* write_urbanczik_history pops a front entry only when its access_counter_
\* >= n_incoming_ and never pops the last remaining entry; consequently, when
\* each of the n_incoming_ synapses reads consecutive non-overlapping ranges
\* through get_eprop_history / get_urbanczik_history (which increments the
\* counter of exactly the entries in the returned range and of no other
\* entry), no entry is popped before every synapse has read it.
C27_PopOnlyWhenAllRead ==
    /\ (obs.op = "write" /\ n_incoming_ # 0) =>
           /\ PoppedOnlyRead(obs.eprop_before, eprop_history_)
           /\ PoppedOnlyRead(obs.urbanczik_before, urbanczik_history_)
    /\ (obs.op = "read") =>
           /\ CountedExactlyRange(obs.eprop_before, eprop_history_, obs.eprop_range,
                                  obs.t1, obs.t2)
           /\ CountedExactlyRange(obs.urbanczik_before, urbanczik_history_,
                                  obs.urbanczik_range, obs.t1, obs.t2)

\* a write with two synapses connected that popped an entry both had read
\* and kept an entry only one of them had read
C27_Witness ==
    /\ obs.op = "write" /\ n_incoming_ = NSyn
    /\ Len(obs.eprop_before) >= 2
    /\ eprop_history_[1].t_ > obs.eprop_before[1].t_
    /\ eprop_history_[1].access_counter_ = 1
    /\ urbanczik_history_ = eprop_history_


\* the compressed-history key a synapse is parked at: the t_compr_end of its
\* last send, which its next send passes to get_urbanczik_value
ParkedKey(synapse) == synapse.t_lastspike_ - synapse.delay

\* the synapses parked at key t
ParkedAt(synapses, t) ==
    {s \in Synapses : synapses[s].connected /\ ParkedKey(synapses[s]) = t}

\* C28: driven by UrbanczikConnectionBC::send, with spikes processed in the
\* order of their time stamps and at most one spike per synapse and step,
\* after every send the access counter of each compressed record equals the
\* number of synapses parked at that record's key, no counter is decremented
\* below 0, and a record is erased (it had counter 0 when the send began)
\* only when no synapse is still parked at its key.
C28_CounterCountsParkedSynapses ==
    [][(obs'.op = "send") =>
          /\ \A i \in DOMAIN urbanczik_history_compr_' :
                 /\ urbanczik_history_compr_'[i].access_counter_ =
                        Cardinality(ParkedAt(syn', urbanczik_history_compr_'[i].t_))
                 /\ urbanczik_history_compr_'[i].access_counter_ # SizeMax
          /\ \A i \in DOMAIN urbanczik_history_compr_ :
                 urbanczik_history_compr_[i].access_counter_ = 0 =>
                     ParkedAt(syn, urbanczik_history_compr_[i].t_) = {}]_vars


(***************************************************************************)
(* SpecB: the block registry of one Urbanczik_Archiving_Node compartment   *)
(* across a block boundary.  B_NSyn synapses connect, the buffers are      *)
(* initialised and the node runs for B_MaxSteps steps; presynaptic spikes  *)
(* arrive only at the steps in B_SpikeSteps, right after the start and     *)
(* around the end of the block that the first deliveries open.             *)
(***************************************************************************)
B_NSyn == 3
B_MaxSteps == 99
B_SpikeSteps == {1, B_MaxSteps - 1, B_MaxSteps}
B_Synapses == 1..B_NSyn

\* the end time of the block init_urbanczik_buffers opens
B_FirstBlockEnd == UrbB_SentinelTime - block_margin_ + hist_block_ms_

\* registered_: the end time of the block the synapse was last counted in
B_Init ==
    /\ eprop_history_ = << >>
    /\ spike_history_ = << >>
    /\ urbanczik_history_ = << >>
    /\ urbanczik_history_compr_ = << >>
    /\ last_spike_per_synapse_ = << >>
    /\ n_incoming_ = 0
    /\ is_eprop_readout = FALSE
    /\ now = 0
    /\ syn = [s \in B_Synapses |->
                 [connected |-> FALSE, delay |-> 0, t_lastspike_ |-> UrbB_SentinelTime,
                  registered_ |-> B_FirstBlockEnd]]
    /\ q = [seeded |-> FALSE]
    /\ obs = NoObs

\* a synapse is connected before the buffers are initialised
B_Connect(s, d) ==
    /\ ~q.seeded /\ ~syn[s].connected
    /\ \A r \in B_Synapses : r < s => syn[r].connected
    /\ syn' = [syn EXCEPT ![s].connected = TRUE, ![s].delay = StepTime(d)]
    /\ n_incoming_' = n_incoming_ + 1
    /\ obs' = NoObs
    /\ UNCHANGED << eprop_history_, spike_history_, urbanczik_history_, urbanczik_history_compr_,
                    last_spike_per_synapse_, is_eprop_readout, now, q >>

\* init_urbanczik_buffers( comp ), once all synapses are connected
B_InitBuffers ==
    /\ \A s \in B_Synapses : syn[s].connected
    /\ U_InitBuffers

\* one simulation step: one entry is written
B_Step ==
    /\ obs.op # "throw" /\ q.seeded /\ now < B_MaxSteps
    /\ now' = now + 1
    /\ urbanczik_history_' =
           UrbB_write_urbanczik_history(urbanczik_history_, n_incoming_,
                                        StepTime(now + 1))
    /\ obs' = NoObs
    /\ UNCHANGED << eprop_history_, spike_history_, urbanczik_history_compr_,
                    last_spike_per_synapse_, n_incoming_, is_eprop_readout, syn, q >>

\* the counter that registry reg holds for the block ending at t (0: no block)
CounterOf(reg, t) ==
    IF \E i \in DOMAIN reg : reg[i].t_ = t
    THEN reg[CHOOSE i \in DOMAIN reg : reg[i].t_ = t].access_counter_
    ELSE 0

\* the end time of the block whose counter differs between two registries
ChangedBlock(reg_a, reg_b) ==
    CHOOSE t \in SeqRange(Times(reg_a)) \cup SeqRange(Times(reg_b)) :
        CounterOf(reg_a, t) # CounterOf(reg_b, t)

\* a presynaptic spike stamped with the current time reaches synapse s
B_Deliver(s) ==
    /\ obs.op # "throw" /\ q.seeded /\ syn[s].connected
    /\ now \in B_SpikeSteps
    /\ StepTime(now) > syn[s].t_lastspike_
    /\ LET c == syn[s]
           t_spike == StepTime(now)
           t1 == c.t_lastspike_ - c.delay
           t2 == t_spike - c.delay
           reg1 == UrbB_register_spike(last_spike_per_synapse_, t2)
           r == UrbB_get_urbanczik_history(last_spike_per_synapse_, t1, t2)
           ts == Times(urbanczik_history_)
       IN  /\ last_spike_per_synapse_' = r.reg
           /\ obs' = IF r.threw THEN [op |-> "throw"]
                     ELSE [op |-> "deliver", synapse |-> s, t1 |-> t1, t2 |-> t2,
                           reg_before |-> last_spike_per_synapse_,
                           registered |-> ChangedBlock(last_spike_per_synapse_, reg1),
                           released |-> ChangedBlock(reg1, r.reg),
                           parked_before |-> c.registered_,
                           got |-> Slice(ts, UrbB_find_range(ts, t1, t2))]
           /\ syn' = [syn EXCEPT ![s].t_lastspike_ = t_spike,
                                 ![s].registered_ =
                                     ChangedBlock(last_spike_per_synapse_, reg1)]
    /\ UNCHANGED << eprop_history_, spike_history_, urbanczik_history_, urbanczik_history_compr_,
                    n_incoming_, is_eprop_readout, now, q >>

B_Next ==
    \/ \E s \in B_Synapses, d \in 1..MaxDelay : B_Connect(s, d)
    \/ B_InitBuffers
    \/ B_Step
    \/ \E s \in B_Synapses : B_Deliver(s)

SpecB == B_Init /\ [][B_Next]_vars

\* C30: a delivery whose t2 does not exceed the end time of the last block
\* is registered in the last block when t2 + stdp_eps is greater than the
\* end time of the second-to-last block, and in the second-to-last block
\* otherwise.
C30_RegisteredInLastOrSecondLast ==
    (/\ obs.op = "deliver"
     /\ Len(obs.reg_before) >= 2
     /\ ~(obs.t2 + StdpEps > obs.reg_before[Len(obs.reg_before)].t_)) =>
        LET last == obs.reg_before[Len(obs.reg_before)]
            second_last == obs.reg_before[Len(obs.reg_before) - 1]
        IN  obs.registered = IF obs.t2 + StdpEps > second_last.t_
                             THEN last.t_
                             ELSE second_last.t_


\* block i of reg covers t: t is after the end of block i - 1 and not after
\* the end of block i (an end time itself belongs to the next block, as in
\* the test t2 + stdp_eps > rbegin()->t_ and in the lower_bound of the release)
InBlock(reg, i, t) ==
    /\ ~(t + StdpEps > reg[i].t_)
    /\ i > 1 => t + StdpEps > reg[i - 1].t_

\* the t2 of a synapse's last delivery (before the first one: the sentinel
\* less the delay, which the first release looks up)
LastT2(synapse) == synapse.t_lastspike_ - synapse.delay

\* C29: after any sequence of deliveries that complete without throwing, the
\* access counter of each block of last_spike_per_synapse_ equals the number
\* of synapses whose last delivered t2 lies in that block's interval (after
\* the previous block's end time, up to this block's end time); each release
\* decrements the block that the synapse's preceding delivery incremented,
\* and the counters sum to n_incoming_.
C29_CounterCountsSynapsesInBlock ==
    (q.seeded /\ obs.op # "throw") =>
        /\ \A i \in DOMAIN last_spike_per_synapse_ :
               last_spike_per_synapse_[i].access_counter_ =
                   Cardinality({s \in B_Synapses :
                                   /\ syn[s].connected
                                   /\ InBlock(last_spike_per_synapse_, i, LastT2(syn[s]))})
        /\ (obs.op = "deliver" => obs.released = obs.parked_before)
        /\ SumCounters(last_spike_per_synapse_) = n_incoming_


(***************************************************************************)
(* Eprop_Archiving_Node::add_learning_to_hist (sentinel variant).  The     *)
(* learning signal itself is kept as the number of coefficients added to   *)
(* an entry (q.learning_signal_), every weighted coefficient counting 1.   *)
(***************************************************************************)
\* the entries the loop of add_learning_to_hist visits: positions
\* start, start + 1, ... while start != finish and coefficients are left
\* (1-based indices into the history); with start beyond finish only the
\* coefficients end the loop
Visited(r, n_coeff) ==
    LET k == IF r[1] <= r[2] THEN Min(r[2] - r[1], n_coeff) ELSE n_coeff
    IN  (r[1] + 1)..(r[1] + k)

\* Eprop_Archiving_Node::add_learning_to_hist for an event stamped stamp_ms
\* with delay delay_ms and n_coeff coefficients.  get_eprop_history is called
\* with decrease_access_counter = false and only computes the range.  ub: the
\* loop dereferences end() or an iterator beyond it.
Sen_add_learning_to_hist(hist, stamp_ms, delay_ms, n_coeff) ==
    LET t_ms == stamp_ms - Resolution
        r == Sen_find_range(Times(hist), t_ms, t_ms + delay_ms)
        visited == Visited(r, n_coeff)
    IN  IF \E i \in visited : i > Len(hist)
        THEN [hist |-> hist, visited |-> visited, ub |-> TRUE]
        ELSE [hist |-> [i \in DOMAIN hist |->
                           IF i \in visited
                           THEN [hist[i] EXCEPT !.access_counter_ = Decrement(@)]
                           ELSE hist[i]],
              visited |-> visited, ub |-> FALSE]

(***************************************************************************)
(* SpecH: one Eprop_Archiving_Node with incoming connections, its writer   *)
(* and a sender of learning-signal events (at most one event per step).    *)
(***************************************************************************)
H_MaxSteps == 5
H_MaxCoeff == 2

H_Init ==
    /\ eprop_history_ = << >>
    /\ spike_history_ = << >>
    /\ urbanczik_history_ = << >>
    /\ urbanczik_history_compr_ = << >>
    /\ last_spike_per_synapse_ = << >>
    /\ n_incoming_ \in 1..NSyn
    /\ is_eprop_readout = FALSE
    /\ now = 0
    /\ syn = NoSyn
    /\ q = [t_event |-> 0, learning_signal_ |-> [k \in 1..H_MaxSteps |-> 0]]
    /\ obs = NoObs

\* one simulation step: one eprop entry is written
H_Step ==
    /\ Alive /\ now < H_MaxSteps
    /\ now' = now + 1
    /\ eprop_history_' =
           Sen_write_eprop_history(eprop_history_, n_incoming_, StepTime(now + 1))
    /\ obs' = NoObs
    /\ UNCHANGED << spike_history_, urbanczik_history_, urbanczik_history_compr_,
                    last_spike_per_synapse_, n_incoming_, is_eprop_readout, syn, q >>

\* a learning-signal event stamped with the current step arrives
H_AddLearning(delay_steps, n_coeff) ==
    /\ Alive /\ now >= 1 /\ q.t_event < now
    /\ LET a == Sen_add_learning_to_hist(eprop_history_, StepTime(now),
                                         StepTime(delay_steps), n_coeff)
       IN  IF a.ub
           THEN /\ obs' = [op |-> "crash"]
                /\ UNCHANGED << eprop_history_, q >>
           ELSE /\ eprop_history_' = a.hist
                /\ q' = [t_event |-> now,
                         learning_signal_ |->
                             [k \in 1..H_MaxSteps |->
                                 IF \E i \in a.visited :
                                        eprop_history_[i].t_ = StepTime(k)
                                 THEN q.learning_signal_[k] + 1
                                 ELSE q.learning_signal_[k]]]
                /\ obs' = [op |-> "add_learning", before |-> eprop_history_,
                           visited |-> a.visited]
    /\ UNCHANGED << spike_history_, urbanczik_history_, urbanczik_history_compr_,
                    last_spike_per_synapse_, n_incoming_, is_eprop_readout, now, syn >>

H_Next ==
    \/ H_Step
    \/ \E d \in 1..MaxDelay, n \in 0..H_MaxCoeff : H_AddLearning(d, n)

SpecH == H_Init /\ [][H_Next]_vars

\* C31: add_learning_to_hist (sentinel variant) leaves the access_counter_ of
\* every eprop-history entry unchanged on return and never takes an unsigned
\* access counter below 0 (no counter wraps).
C31_AddLearningKeepsCounters ==
    (obs.op = "add_learning") =>
        /\ Len(eprop_history_) = Len(obs.before)
        /\ \A i \in DOMAIN eprop_history_ :
               eprop_history_[i].access_counter_ = obs.before[i].access_counter_
        /\ \A i \in obs.visited : obs.before[i].access_counter_ > 0


\* C32: in EpropConnection::send the update branch (the only place that
\* changes a connected synapse) runs only for a spike with
\* t_spike > t_nextupdate_, and after every update
\* t_lastupdate_ <= t_spike < t_nextupdate_ and
\* t_nextupdate_ = t_lastupdate_ + update_interval_.
C32_UpdateOncePerInterval ==
    [][\A s \in Synapses :
          (syn[s].connected /\ syn'[s] # syn[s]) =>
              /\ StepTime(now) > syn[s].t_nextupdate_
              /\ syn'[s].t_lastupdate_ <= StepTime(now)
              /\ StepTime(now) < syn'[s].t_nextupdate_
              /\ syn'[s].t_nextupdate_ =
                     syn'[s].t_lastupdate_ + syn'[s].update_interval_]_vars


\* a send whose t_compr_end is within 1e-6 of the key of the most recent
\* compressed record: a second spike in the same time step
SecondSpikeInStep ==
    /\ obs.op = "send"
    /\ obs.compr_before # << >>
    /\ Abs(obs.compr_before[Len(obs.compr_before)].t_ - obs.t_compr_end) < StdpEps

C34_TidyKeepsRegistry ==
    [][last_spike_per_synapse_' = last_spike_per_synapse_]_vars

\* a tidy of the sentinel variant that erased entries
C34_Witness ==
    /\ q.phase = "once" /\ q.variant = "Eprop_Archiving_Node" /\ q.erased > 0
    /\ Len(last_spike_per_synapse_) = 2


\* C35: a tidy call made while the registry is empty raises a fatal error and
\* erases nothing, instead of reading a watermark from the empty registry:
\* no tidy_eprop_history of SpecA runs to completion on an empty registry.
C35_TidyOnEmptyRegistryRaises ==
    (obs.op = "tidy") => (~obs.registry_empty /\ last_spike_per_synapse_ # << >>)


\* C36: in the Urbanczik block-registry variant blocks never overlap: the
\* block end times in last_spike_per_synapse_ are strictly ascending after
\* any sequence of deliveries, and every newly appended block ends at least
\* hist_block_ms_ after the end of the previously last block.
C36_BlocksNeverOverlap ==
    /\ \A i \in 1..(Len(last_spike_per_synapse_) - 1) :
           last_spike_per_synapse_[i].t_ < last_spike_per_synapse_[i + 1].t_
    /\ (obs.op = "deliver"
            /\ \A i \in DOMAIN obs.reg_before : obs.reg_before[i].t_ # obs.registered) =>
           obs.registered >= obs.reg_before[Len(obs.reg_before)].t_ + hist_block_ms_

\* a delivery that opened a third block while two older ones were in use
C36_Witness ==
    /\ obs.op = "deliver"
    /\ Len(obs.reg_before) >= 2
    /\ \A i \in DOMAIN obs.reg_before : obs.reg_before[i].t_ # obs.registered
    /\ Len(last_spike_per_synapse_) >= 2

====
